---- MODULE Spec2Model ----
(***************************************************************************)
(* Decay-table construction of SMASH (DecayModes::load_decaymodes) over a  *)
(* small particle catalogue.  Species are identified by their PDG code,    *)
(* spins and isospins are stored doubled (as in the code), masses are in   *)
(* MeV, branching weights are exact rationals [n, d]; d = 0 encodes the    *)
(* IEEE results of a division by zero (n = 0: NaN, n = 1/-1: +inf/-inf).   *)
(* A value that is used more than once is bound as the parameter of a LET  *)
(* operator, so that it is computed once.                                  *)
(***************************************************************************)
EXTENDS Integers, Sequences, FiniteSets, TLC

VARIABLES
  status,                    \* "idle", "loading", "ok", "failed"
  error,                     \* the exception load_decaymodes ended with
  ndebug,                    \* whether the build disables assert
  all_decay_types,           \* the registry of decay types (unset while "idle")
  all_decay_modes,           \* the installed table of every species (same)
  isotype_mother,            \* the current mother multiplet
  decay_modes_to_add,        \* the in-progress table of each mother state
  total_large_renormalized,
  linenumber,                \* the counter of load_decaymodes
  physical,                  \* lines of the input text consumed by line_parser
  line,                      \* the Line being processed: its number in the text
  nrecords,                  \* records read
  ncomments,                 \* comment or empty lines skipped
  min_mass_kinematic_,       \* the cached minimum mass of every species
  finalized,                 \* the multiplets whose section has been finalized
  last,                      \* what the last record read was and did
  requests,                  \* the get_decay_type calls made and what they returned
  min_mass_spectral_,        \* the cached spectral minimum mass of every species
  norm_factor_,              \* the cached normalization of every spectral function
  max_factor1_,              \* the envelope factor of sample_resonance_mass
  max_factor2_,              \* the envelope factor of sample_resonance_masses
  returned,                  \* the last call of a run-time function and its result
  history,                   \* the results of the earlier calls, by call
  pc,                        \* where each worker is in its call
  frame,                     \* the locals of each worker's call
  map_possible_resonances_of \* the static map of list_possible_resonances

(***************************************************************************)
(* Bounds of the model.                                                    *)
(***************************************************************************)
\* number of records (headers and data lines) one input may hold
MaxLines == 3
\* number of comment or empty lines one input may hold
MaxComments == 1
\* largest orbital angular momentum a data line may carry
MaxL == 3

(***************************************************************************)
(* Exact arithmetic on weights.                                            *)
(***************************************************************************)
Abs(x) == IF x < 0 THEN -x ELSE x

Sign(x) == IF x < 0 THEN -1 ELSE IF x > 0 THEN 1 ELSE 0

RECURSIVE Gcd(_, _)
Gcd(a, b) ==
  IF b = 0 THEN a ELSE CHOOSE g \in {Gcd(b, r) : r \in {a % b}} : TRUE

\* the value n/d, reduced; d = 0 gives NaN (n = 0) or a signed infinity
Rat(n, d) ==
  IF d = 0 THEN [n |-> Sign(n), d |-> 0]
  ELSE LET g == Gcd(Abs(n), Abs(d))
       IN  [n |-> (Sign(d) * n) \div g, d |-> Abs(d) \div g]

Zero == Rat(0, 1)

One == Rat(1, 1)

\* the sums and products reduce before they multiply, so that no intermediate
\* value is larger than the result needs
RAdd(a, b) ==
  IF a.d = 0 /\ b.d = 0 THEN (IF a.n = b.n THEN a ELSE Rat(0, 0))
  ELSE IF a.d = 0 THEN a
  ELSE IF b.d = 0 THEN b
  ELSE LET Sum(g) == Rat(a.n * (b.d \div g) + b.n * (a.d \div g), (a.d \div g) * b.d)
       IN  Sum(Gcd(a.d, b.d))

RSub(a, b) == RAdd(a, [n |-> -b.n, d |-> b.d])

RMul(a, b) ==
  IF a.d = 0 \/ b.d = 0 THEN Rat(a.n * b.n, 0)
  ELSE LET Product(g, h) ==
             Rat((a.n \div g) * (b.n \div h), (a.d \div h) * (b.d \div g))
       IN  Product(Gcd(Abs(a.n), b.d), Gcd(Abs(b.n), a.d))

\* a / b as the floating-point division gives it: x/0 is an infinity, 0/0 NaN
RDiv(a, b) ==
  IF (a.d = 0 /\ b.d = 0) \/ (b.d = 0 /\ b.n = 0) THEN Rat(0, 0)
  ELSE IF b.d = 0 THEN (IF a.d = 0 THEN Rat(0, 0) ELSE Zero)
  ELSE IF a.d = 0 THEN Rat(IF b.n < 0 THEN -a.n ELSE a.n, 0)
  ELSE IF b.n = 0 THEN Rat(a.n, 0)
  ELSE RMul(a, Rat(b.d, b.n))

RAbs(a) == [n |-> Abs(a.n), d |-> a.d]

\* an/ad < bn/bd for positive denominators, by the integer parts and then the
\* remainders
RECURSIVE FractionLess(_, _, _, _)
FractionLess(an, ad, bn, bd) ==
  IF an \div ad # bn \div bd THEN an \div ad < bn \div bd
  ELSE IF an % ad = 0 THEN bn % bd > 0
  ELSE IF bn % bd = 0 THEN FALSE
  ELSE CHOOSE less \in {FractionLess(bd, rb, ad, ra) :
                         rb \in {bn % bd}, ra \in {an % ad}} : TRUE

\* a < b; every comparison with NaN is false
RLess(a, b) ==
  IF (a.d = 0 /\ a.n = 0) \/ (b.d = 0 /\ b.n = 0) THEN FALSE
  ELSE IF a.d = 0 /\ b.d = 0 THEN a.n < b.n
  ELSE IF a.d = 0 THEN a.n < 0
  ELSE IF b.d = 0 THEN b.n > 0
  ELSE FractionLess(a.n, a.d, b.n, b.d)

RECURSIVE Fact(_)
Fact(n) == IF n <= 0 THEN 1 ELSE n * Fact(n - 1)

Min(a, b) == IF a < b THEN a ELSE b

Max(a, b) == IF a > b THEN a ELSE b

\* the elements of a finite set of integers in ascending order
RECURSIVE SortedSeq(_)
SortedSeq(S) ==
  IF S = {} THEN <<>>
  ELSE LET m == CHOOSE x \in S : \A y \in S : x <= y
       IN  <<m>> \o SortedSeq(S \ {m})

RECURSIVE SeqSum(_)
SeqSum(s) == IF s = <<>> THEN 0 ELSE Head(s) + SeqSum(Tail(s))

Range(s) == {s[i] : i \in 1..Len(s)}

\* the function f, with every value computed once
RECURSIVE Tabulated(_)
Tabulated(f) ==
  IF DOMAIN f = {} THEN <<>>
  ELSE LET k == CHOOSE x \in DOMAIN f : TRUE
       IN  (k :> f[k]) @@ Tabulated([x \in DOMAIN f \ {k} |-> f[x]])

(***************************************************************************)
(* The particle catalogue.  A name is a record: base name, the bar of an   *)
(* antiparticle name, and the charge suffix ("" for a multiplet name or a  *)
(* single-state species).                                                  *)
(***************************************************************************)
Nm(b, c) == [b |-> b, bar |-> FALSE, c |-> c]

\* the quantum numbers a PDG code (of a particle, not an antiparticle) encodes
PdgTable ==
  Tabulated([c \in {11, 22, 111, 211, 113, 213, 333, 311, 321, 2112, 2212, 12112, 12212,
                 9000221} |->
     CASE c = 11    -> [q |-> -1, s |-> 1, i3 |-> 0, B |-> 0, S |-> 0, hadron |-> FALSE, lepton |-> TRUE,  self |-> FALSE]
       [] c = 22    -> [q |-> 0, s |-> 2, i3 |-> 0,  B |-> 0, S |-> 0, hadron |-> FALSE, lepton |-> FALSE, self |-> TRUE]
       [] c = 111   -> [q |-> 0, s |-> 0, i3 |-> 0,  B |-> 0, S |-> 0, hadron |-> TRUE,  lepton |-> FALSE, self |-> TRUE]
       [] c = 211   -> [q |-> 1, s |-> 0, i3 |-> 2,  B |-> 0, S |-> 0, hadron |-> TRUE,  lepton |-> FALSE, self |-> FALSE]
       [] c = 113   -> [q |-> 0, s |-> 2, i3 |-> 0,  B |-> 0, S |-> 0, hadron |-> TRUE,  lepton |-> FALSE, self |-> TRUE]
       [] c = 213   -> [q |-> 1, s |-> 2, i3 |-> 2,  B |-> 0, S |-> 0, hadron |-> TRUE,  lepton |-> FALSE, self |-> FALSE]
       [] c = 333   -> [q |-> 0, s |-> 2, i3 |-> 0,  B |-> 0, S |-> 0, hadron |-> TRUE,  lepton |-> FALSE, self |-> TRUE]
       [] c = 311   -> [q |-> 0, s |-> 0, i3 |-> -1, B |-> 0, S |-> 1, hadron |-> TRUE,  lepton |-> FALSE, self |-> FALSE]
       [] c = 321   -> [q |-> 1, s |-> 0, i3 |-> 1,  B |-> 0, S |-> 1, hadron |-> TRUE,  lepton |-> FALSE, self |-> FALSE]
       [] c = 2112  -> [q |-> 0, s |-> 1, i3 |-> -1, B |-> 1, S |-> 0, hadron |-> TRUE,  lepton |-> FALSE, self |-> FALSE]
       [] c = 2212  -> [q |-> 1, s |-> 1, i3 |-> 1,  B |-> 1, S |-> 0, hadron |-> TRUE,  lepton |-> FALSE, self |-> FALSE]
       [] c = 12112 -> [q |-> 0, s |-> 1, i3 |-> -1, B |-> 1, S |-> 0, hadron |-> TRUE,  lepton |-> FALSE, self |-> FALSE]
       [] c = 12212 -> [q |-> 1, s |-> 1, i3 |-> 1,  B |-> 1, S |-> 0, hadron |-> TRUE,  lepton |-> FALSE, self |-> FALSE]
       [] c = 9000221 -> [q |-> 0, s |-> 0, i3 |-> 0, B |-> 0, S |-> 0, hadron |-> TRUE, lepton |-> FALSE, self |-> TRUE]])

pdg_charge(c) == Sign(c) * PdgTable[Abs(c)].q

pdg_spin(c) == PdgTable[Abs(c)].s

pdg_isospin3(c) == Sign(c) * PdgTable[Abs(c)].i3

pdg_baryon_number(c) == Sign(c) * PdgTable[Abs(c)].B

pdg_strangeness(c) == Sign(c) * PdgTable[Abs(c)].S

pdg_is_hadron(c) == PdgTable[Abs(c)].hadron

pdg_is_lepton(c) == PdgTable[Abs(c)].lepton

pdg_has_antiparticle(c) == ~PdgTable[Abs(c)].self

pdg_get_antiparticle(c) == -c

\* the records of the particle list the catalogue is built from: name (with
\* the charge mark a single state carries in its name), pole mass, pole width,
\* parity and the PDG codes of the states; sigma sits exactly at the two-pion
\* threshold
ParticleLines ==
  << [name |-> "pi",    c |-> "",  mass |-> 138,  width |-> 0,   parity |-> -1, pdg |-> <<111, 211>>],
     [name |-> "rho",   c |-> "",  mass |-> 776,  width |-> 149, parity |-> -1, pdg |-> <<113, 213>>],
     [name |-> "phi",   c |-> "",  mass |-> 1019, width |-> 4,   parity |-> -1, pdg |-> <<333>>],
     [name |-> "K",     c |-> "",  mass |-> 494,  width |-> 0,   parity |-> -1, pdg |-> <<311, 321>>],
     [name |-> "N",     c |-> "",  mass |-> 938,  width |-> 0,   parity |-> 1,  pdg |-> <<2112, 2212>>],
     [name |-> "N1440", c |-> "",  mass |-> 1440, width |-> 350, parity |-> 1,  pdg |-> <<12112, 12212>>],
     [name |-> "gamma", c |-> "",  mass |-> 0,    width |-> 0,   parity |-> -1, pdg |-> <<22>>],
     [name |-> "sigma", c |-> "",  mass |-> 276,  width |-> 400, parity |-> 1,  pdg |-> <<9000221>>],
     [name |-> "e",     c |-> "-", mass |-> 1,    width |-> 0,   parity |-> 1,  pdg |-> <<11>>] >>

chargestr(charge) ==
  CASE charge = 2  -> "++"
    [] charge = 1  -> "+"
    [] charge = 0  -> "0"
    [] charge = -1 -> "-"
    [] charge = -2 -> "--"

antiname(name, code) ==
  [b   |-> name.b,
   bar |-> (pdg_baryon_number(code) # 0 \/ pdg_strangeness(code) # 0),
   c   |-> CASE name.c = "++" -> "--"
             [] name.c = "+"  -> "-"
             [] name.c = "--" -> "++"
             [] name.c = "-"  -> "+"
             [] OTHER         -> name.c]

\* the species one state of one line adds: itself and, if it has one, its
\* antiparticle (bosons keep the parity, fermions invert it)
TypesOfState(entry, i) ==
  LET Both(code, anti, self) ==
        IF pdg_has_antiparticle(code)
        THEN {self, [name |-> antiname(self.name, code), mass |-> entry.mass,
                     width |-> entry.width,
                     parity |-> IF pdg_spin(anti) % 2 = 0 THEN entry.parity
                                ELSE -entry.parity,
                     pdgcode |-> anti]}
        ELSE {self}
      State(code) ==
        Both(code, pdg_get_antiparticle(code),
             [name |-> IF Len(entry.pdg) > 1
                       THEN Nm(entry.name, chargestr(pdg_charge(code)))
                       ELSE Nm(entry.name, entry.c),
              mass |-> entry.mass, width |-> entry.width, parity |-> entry.parity,
              pdgcode |-> code])
  IN  State(entry.pdg[i])

create_type_list ==
  LET Types(lines) ==
        UNION {UNION {TypesOfState(lines[l], i) : i \in 1..Len(lines[l].pdg)} :
                 l \in 1..Len(lines)}
  IN  Types(ParticleLines)

\* the catalogue, by PDG code
ParticleTypes ==
  LET ByCode(types) ==
        [c \in {t.pdgcode : t \in types} |-> CHOOSE t \in types : t.pdgcode = c]
  IN  Tabulated(ByCode(create_type_list))

\* the species of the catalogue
AllPdg == DOMAIN ParticleTypes

\* ParticleType::list_all(): the catalogue sorted by PDG code
list_all == SortedSeq(AllPdg)

name(p) == ParticleTypes[p].name

mass(p) == ParticleTypes[p].mass

width_at_pole(p) == ParticleTypes[p].width

parity(p) == ParticleTypes[p].parity

charge(p) == pdg_charge(p)

spin(p) == pdg_spin(p)

baryon_number(p) == pdg_baryon_number(p)

strangeness(p) == pdg_strangeness(p)

is_hadron(p) == pdg_is_hadron(p)

\* a species is stable when its pole width is below the width cutoff
is_stable(p) == width_at_pole(p) = 0

has_antiparticle(p) == pdg_has_antiparticle(p)

get_antiparticle(p) == pdg_get_antiparticle(p)

\* ParticleType::exists(name)
exists(n) ==
  LET Named(types) == \E p \in DOMAIN types : types[p].name = n
  IN  Named(ParticleTypes)

(***************************************************************************)
(* Isospin multiplets: a multiplet is named by the name of its states      *)
(* without the charge suffix.                                              *)
(***************************************************************************)
multiplet_name(n) == [n EXCEPT !.c = ""]

\* the states of every multiplet, in the order of the catalogue
iso_states ==
  LET States(types) ==
        [m \in {multiplet_name(types[p].name) : p \in DOMAIN types} |->
           SortedSeq({p \in DOMAIN types : multiplet_name(types[p].name) = m})]
  IN  Tabulated(States(ParticleTypes))

Multiplets == DOMAIN iso_states

get_states(m) == iso_states[m]

iso_multiplet(p) == multiplet_name(name(p))

\* IsoParticleType::try_find(name) finds a multiplet
iso_exists(n) == n \in Multiplets

iso_isospin(m) == Len(get_states(m)) - 1

iso_spin(m) == spin(get_states(m)[1])

iso_parity(m) == parity(get_states(m)[1])

has_anti_multiplet(m) ==
  LET Anti(first) ==
        has_antiparticle(first) /\ iso_multiplet(get_antiparticle(first)) # m
  IN  Anti(get_states(m)[1])

\* IsoParticleType::find_state(name): the state of that name, 0 if there is none
find_state(n) ==
  LET Find(types) ==
        IF \E p \in DOMAIN types : types[p].name = n
        THEN CHOOSE p \in DOMAIN types : types[p].name = n
        ELSE 0
  IN  Find(ParticleTypes)

\* ParticleType::isospin() and isospin3(), doubled
isospin(p) == IF is_hadron(p) THEN iso_isospin(iso_multiplet(p)) ELSE 0

isospin3(p) == pdg_isospin3(p)

(***************************************************************************)
(* Squared Clebsch-Gordan coefficients (all arguments doubled).            *)
(***************************************************************************)
\* whether <ja ma; jb mb | jc mc> can be non-zero
CGAllowed(ja, jb, jc, ma, mb, mc) ==
  /\ ma + mb = mc
  /\ Abs(ja - jb) <= jc /\ jc <= ja + jb
  /\ (ja + jb + jc) % 2 = 0
  /\ Abs(ma) <= ja /\ Abs(mb) <= jb /\ Abs(mc) <= jc
  /\ (ja + ma) % 2 = 0 /\ (jb + mb) % 2 = 0 /\ (jc + mc) % 2 = 0

\* the sum over k of Racah's formula, from k on
RECURSIVE RacahSum(_, _, _, _, _, _)
RacahSum(ja, jb, jc, ma, mb, k) ==
  LET a1 == (ja + jb - jc) \div 2 - k
      a2 == (ja - ma) \div 2 - k
      a3 == (jb + mb) \div 2 - k
      a4 == (jc - jb + ma) \div 2 + k
      a5 == (jc - ja - mb) \div 2 + k
  IN  IF a1 < 0 \/ a2 < 0 \/ a3 < 0 THEN Zero
      ELSE LET rest == RacahSum(ja, jb, jc, ma, mb, k + 1)
           IN  IF a4 < 0 \/ a5 < 0 THEN rest
               ELSE RAdd(Rat(IF k % 2 = 0 THEN 1 ELSE -1,
                             Fact(k) * Fact(a1) * Fact(a2) * Fact(a3) * Fact(a4) * Fact(a5)),
                         rest)

\* ClebschGordan::coefficient squared
clebsch_gordan_sqr(ja, jb, jc, ma, mb, mc) ==
  IF ~CGAllowed(ja, jb, jc, ma, mb, mc) THEN Zero
  ELSE LET pref == Rat((jc + 1) * Fact((jc + ja - jb) \div 2) * Fact((jc - ja + jb) \div 2)
                         * Fact((ja + jb - jc) \div 2),
                       Fact((ja + jb + jc) \div 2 + 1))
           norm == Fact((jc + mc) \div 2) * Fact((jc - mc) \div 2)
                   * Fact((ja - ma) \div 2) * Fact((ja + ma) \div 2)
                   * Fact((jb - mb) \div 2) * Fact((jb + mb) \div 2)
           Squared(sum) == RMul(RMul(pref, Rat(norm, 1)), RMul(sum, sum))
       IN  Squared(RacahSum(ja, jb, jc, ma, mb, 0))

isospin_clebsch_gordan_sqr_2to1(p_a, p_b, Res) ==
  clebsch_gordan_sqr(isospin(p_a), isospin(p_b), isospin(Res),
                     isospin3(p_a), isospin3(p_b), isospin3(Res))

\* the three-body coupling: a and b couple to an intermediate isospin I_ab,
\* which couples with c to the resonance; summed over the allowed I_ab
RECURSIVE CG3Sum(_, _, _, _, _, _, _, _, _, _)
CG3Sum(I_a, I_b, I_c, I_Res, m_a, m_b, m_c, m_Res, I_ab, I_max) ==
  IF I_ab > I_max THEN Zero
  ELSE RAdd(RMul(clebsch_gordan_sqr(I_a, I_b, I_ab, m_a, m_b, m_a + m_b),
                 clebsch_gordan_sqr(I_ab, I_c, I_Res, m_a + m_b, m_c, m_Res)),
            CG3Sum(I_a, I_b, I_c, I_Res, m_a, m_b, m_c, m_Res, I_ab + 2, I_max))

isospin_clebsch_gordan_sqr_3to1(p_a, p_b, p_c, Res) ==
  LET Sum(I_a, I_b, I_c, I_Res) ==
        CG3Sum(I_a, I_b, I_c, I_Res,
               isospin3(p_a), isospin3(p_b), isospin3(p_c), isospin3(Res),
               Max(Abs(I_a - I_b), Abs(I_Res - I_c)), Min(I_a + I_b, I_Res + I_c))
  IN  Sum(isospin(p_a), isospin(p_b), isospin(p_c), isospin(Res))

(***************************************************************************)
(* Decay types, decay branches and decay tables.  A decay type is an entry *)
(* of the registry all_decay_types and is referred to by its index there   *)
(* (the pointer identity of the code); a table is a sequence of branches   *)
(* [type, weight].                                                         *)
(***************************************************************************)
RECURSIVE Insert(_, _)
Insert(x, s) ==
  IF s = <<>> THEN <<x>>
  ELSE IF x <= Head(s) THEN <<x>> \o s
  ELSE <<Head(s)>> \o Insert(x, Tail(s))

\* a sequence of integers sorted ascending, duplicates kept
RECURSIVE Sorted(_)
Sorted(s) == IF s = <<>> THEN <<>> ELSE Insert(Head(s), Sorted(Tail(s)))

is_dilepton(p1, p2) ==
  pdg_is_lepton(p1) /\ pdg_is_lepton(p2) /\ p1 = -p2

has_lepton_pair(p1, p2, p3) ==
  is_dilepton(p1, p2) \/ is_dilepton(p1, p3) \/ is_dilepton(p2, p3)

\* DecayType::has_particles: the same daughters, in any order
has_particles(type, list) == Sorted(type.particles) = Sorted(list)

\* DecayType::has_mother: only the three-body dilepton decay knows its mother
has_mother(type, mother) ==
  type.kind = "ThreeBodyDecayDilepton" => type.mother = mother

\* the variant get_decay_type constructs for a new (daughters, L)
DecayKind(particle_types) ==
  IF Len(particle_types) = 2
  THEN IF is_dilepton(particle_types[1], particle_types[2]) THEN "TwoBodyDecayDilepton"
       ELSE IF is_stable(particle_types[1]) /\ is_stable(particle_types[2])
            THEN "TwoBodyDecayStable"
       ELSE IF is_stable(particle_types[1]) \/ is_stable(particle_types[2])
            THEN "TwoBodyDecaySemistable"
       ELSE "TwoBodyDecayUnstable"
  ELSE IF Len(particle_types) = 3
  THEN IF has_lepton_pair(particle_types[1], particle_types[2], particle_types[3])
       THEN "ThreeBodyDecayDilepton"
       ELSE "ThreeBodyDecay"
  ELSE "invalid"

\* the search with the mother compared for every kind of decay
MatchingTypesOfMother(types, mother, particle_types, L) ==
  {i \in 1..Len(types) : /\ types[i].mother = mother
                         /\ has_particles(types[i], particle_types)
                         /\ types[i].L = L}

\* the indices of the registered types that match (mother, daughters, L)
MatchingTypes(types, mother, particle_types, L) ==
  {i \in 1..Len(types) : /\ has_mother(types[i], mother)
                         /\ has_particles(types[i], particle_types)
                         /\ types[i].L = L}

\* DecayModes::get_decay_type: the first matching type of the registry, or a
\* new one appended to it; type = 0 stands for the InvalidDecay of a daughter
\* count other than 2 or 3
get_decay_type(types, mother, particle_types, L) ==
  LET Get(found, kind) ==
        IF found # {}
        THEN [types |-> types, type |-> CHOOSE i \in found : \A j \in found : i <= j]
        ELSE IF kind = "invalid" THEN [types |-> types, type |-> 0]
        ELSE [types |-> Append(types,
                          [particles |-> particle_types, L |-> L, kind |-> kind,
                           mother |-> IF kind = "ThreeBodyDecayDilepton" THEN mother
                                      ELSE 0]),
              type  |-> Len(types) + 1]
  IN  Get(MatchingTypes(types, mother, particle_types, L), DecayKind(particle_types))

\* the position of the branch of that type in a table, 0 if there is none
BranchOf(table, type) ==
  IF \E i \in 1..Len(table) : table[i].type = type
  THEN CHOOSE i \in 1..Len(table) : table[i].type = type /\
                                    \A j \in 1..(i - 1) : table[j].type # type
  ELSE 0

\* add_mode without the search for a branch of the type
add_mode_appending(table, types, mother, ratio, L, particle_types) ==
  LET Add(got) ==
        IF got.type = 0 THEN [table |-> table, types |-> got.types, ok |-> FALSE]
        ELSE [table |-> Append(table, [type |-> got.type, weight |-> ratio]),
              types |-> got.types, ok |-> TRUE]
  IN  Add(get_decay_type(types, mother, particle_types, L))

\* DecayModes::add_mode on a table, with the registry it reads and extends
add_mode(table, types, mother, ratio, L, particle_types) ==
  LET Add(got, at) ==
        IF got.type = 0 THEN [table |-> table, types |-> got.types, ok |-> FALSE]
        ELSE IF at # 0
        THEN [table |-> [table EXCEPT ![at].weight = RAdd(@, ratio)],
              types |-> got.types, ok |-> TRUE]
        ELSE [table |-> Append(table, [type |-> got.type, weight |-> ratio]),
              types |-> got.types, ok |-> TRUE]
      Find(got) == Add(got, BranchOf(table, got.type))
  IN  Find(get_decay_type(types, mother, particle_types, L))

RECURSIVE WeightSum(_)
WeightSum(table) ==
  IF table = <<>> THEN Zero ELSE RAdd(Head(table).weight, WeightSum(Tail(table)))

really_small == Rat(1, 1000000)

\* the skip test of renormalize
SkipRenormalization(sum) == RLess(RAbs(RSub(sum, One)), really_small)

\* DecayModes::renormalize: the table afterwards and the returned flag
renormalize(table) ==
  LET Renormalized(sum) ==
        IF SkipRenormalization(sum) THEN [table |-> table, large |-> FALSE]
        ELSE [table |-> [i \in 1..Len(table) |->
                           [table[i] EXCEPT !.weight = RDiv(@, sum)]],
              large |-> RLess(Rat(1, 100), RAbs(RSub(sum, One)))]
  IN  Renormalized(WeightSum(table))

min_angular_momentum(s0, s1, s2) ==
  LET min_L == Min(Min(Abs(s0 - s1 - s2), Abs(s0 - s1 + s2)), Abs(s0 + s1 - s2))
  IN  IF min_L % 2 # 0 THEN -1 ELSE min_L \div 2

\* the minimum without the last combination of signs
min_angular_momentum3_six(s0, s1, s2, s3) ==
  LET a == Min(Abs(s0 - s1 + s2 + s3), Abs(s0 + s1 - s2 + s3))
      b == Min(a, Abs(s0 + s1 + s2 - s3))
      c == Min(b, Abs(s0 - s1 - s2 + s3))
      d == Min(c, Abs(s0 - s1 + s2 - s3))
      min_L == Min(d, Abs(s0 + s1 - s2 - s3))
  IN  IF min_L % 2 # 0 THEN -1 ELSE min_L \div 2

min_angular_momentum3(s0, s1, s2, s3) ==
  LET a == Min(Abs(s0 - s1 + s2 + s3), Abs(s0 + s1 - s2 + s3))
      b == Min(a, Abs(s0 + s1 + s2 - s3))
      c == Min(b, Abs(s0 - s1 - s2 + s3))
      d == Min(c, Abs(s0 - s1 + s2 - s3))
      e == Min(d, Abs(s0 + s1 - s2 - s3))
      min_L == Min(e, Abs(s0 - s1 - s2 - s3))
  IN  IF min_L % 2 # 0 THEN -1 ELSE min_L \div 2

(***************************************************************************)
(* The inputs load_decaymodes is run on.                                   *)
(***************************************************************************)
\* the names a header record may carry: every multiplet and an unknown name
HeaderNames == Multiplets \cup {Nm("X", "")}

\* the ratios a data line may carry
Ratios == {Rat(0, 1), Rat(1, 1)}

\* the angular momenta a data line may carry
AngularMomenta == -1..MaxL

\* the daughter lists a data line may carry
DaughterLists ==
  { <<Nm("pi", ""), Nm("pi", "")>>,
    <<Nm("K", ""), Nm("K", "")>>,
    <<Nm("N", ""), Nm("pi", "")>>,
    <<Nm("pi", ""), Nm("rho", ""), Nm("pi", "")>>,
    <<Nm("pi", "+"), Nm("pi", "-")>>,
    <<Nm("K", "+"), Nm("pi", "0")>>,
    <<Nm("pi", "0"), Nm("gamma", "")>>,
    <<Nm("pi", ""), Nm("gamma", "")>>,
    <<Nm("pi", "0")>>,
    <<Nm("pi", ""), Nm("X", "")>> }

\* the values a read of the spin through the unset mother pointer may give
GarbageSpins == {0, 1}

(***************************************************************************)
(* One data line of load_decaymodes.                                       *)
(***************************************************************************)
\* the unset mother multiplet
Null == Nm("nullptr", "")

NoError == [type |-> "none", what |-> "none", line |-> 0]

\* an exception: its class, what it reports, and the line number its message
\* carries (0 if it carries none)
Error(type, what, number) == [type |-> type, what |-> what, line |-> number]

\* the outcome of dereferencing the unset mother multiplet
Crash == Error("crash", "null mother multiplet", 0)

\* the add_mode calls of a line, in order: each names the index of the mother
\* state, the weight and the daughters
RECURSIVE AddModes(_, _, _, _, _)
AddModes(to_add, types, mother_states, L, calls) ==
  IF calls = <<>> THEN [to_add |-> to_add, types |-> types]
  ELSE LET Rest(c, got) ==
             AddModes([to_add EXCEPT ![c.m] = got.table], got.types, mother_states, L,
                      Tail(calls))
           Add(c) ==
             Rest(c, add_mode(to_add[c.m], types, mother_states[c.m], c.ratio, L,
                              c.particles))
       IN  Add(Head(calls))

\* the loops of a two-body multiplet line: mother states, then the states of
\* the first and of the second daughter multiplet
Combinations2(mother_states, st1, st2, ratio) ==
  LET n1 == Len(st1)
      n2 == Len(st2)
  IN  [i \in 1..(Len(mother_states) * n1 * n2) |->
         LET k  == i - 1
             m  == (k \div (n1 * n2)) + 1
             d1 == st1[((k \div n2) % n1) + 1]
             d2 == st2[(k % n2) + 1]
         IN  [m |-> m, particles |-> <<d1, d2>>,
              ratio |-> RMul(ratio, isospin_clebsch_gordan_sqr_2to1(d1, d2, mother_states[m]))]]

Combinations3(mother_states, st1, st2, st3, ratio) ==
  LET n1 == Len(st1)
      n2 == Len(st2)
      n3 == Len(st3)
  IN  [i \in 1..(Len(mother_states) * n1 * n2 * n3) |->
         LET k  == i - 1
             m  == (k \div (n1 * n2 * n3)) + 1
             d1 == st1[((k \div (n2 * n3)) % n1) + 1]
             d2 == st2[((k \div n3) % n2) + 1]
             d3 == st3[(k % n3) + 1]
         IN  [m |-> m, particles |-> <<d1, d2, d3>>,
              ratio |-> RMul(ratio,
                             isospin_clebsch_gordan_sqr_3to1(d1, d2, d3, mother_states[m]))]]

\* the combinations a multiplet line adds: those with cg_sqr > 0
CGPositive(cg_sqr) == cg_sqr.n > 0 /\ cg_sqr.d > 0

AllowedCombinations2(mother_states, st1, st2) ==
  SelectSeq(Combinations2(mother_states, st1, st2, One), LAMBDA c : CGPositive(c.ratio))

AllowedCombinations3(mother_states, st1, st2, st3) ==
  SelectSeq(Combinations3(mother_states, st1, st2, st3, One),
            LAMBDA c : CGPositive(c.ratio))

\* the daughter lists of the inputs that name hadronic multiplets only
MultipletLists ==
  {t \in DaughterLists : /\ Len(t) \in {2, 3}
                         /\ \A i \in 1..Len(t) : iso_exists(t[i]) /\ is_hadron(get_states(t[i])[1])}

\* the allowed combinations of every mother multiplet and daughter list of the
\* inputs, computed once
AllowedCombinations ==
  Tabulated([k \in Multiplets \X MultipletLists |->
     IF Len(k[2]) = 2
     THEN AllowedCombinations2(get_states(k[1]), get_states(k[2][1]),
                               get_states(k[2][2]))
     ELSE AllowedCombinations3(get_states(k[1]), get_states(k[2][1]),
                               get_states(k[2][2]), get_states(k[2][3]))])

WithRatio(calls, ratio) ==
  [i \in 1..Len(calls) |-> [calls[i] EXCEPT !.ratio = RMul(ratio, @)]]

\* the spins the bounds of a three-body multiplet line are computed from
MultipletSpins3(s0, iso1, iso2, iso3) ==
  <<s0, iso_spin(iso1), iso_spin(iso2), iso_spin(iso2)>>

\* whether the isospin-forbidden test of a multiplet line is made
ChecksForbidden(n) == n = 2

\* the multiplet-mode branch: daughters name hadronic multiplets
MultipletLine(mother, mother_states, s0, to_add, types, counter, ratio, L, tokens) ==
  IF Len(tokens) = 2 \/ Len(tokens) = 3
  THEN LET n == Len(tokens)
           Outcome(min_L, max_L, par, calls, done) ==
             IF min_L < 0
             THEN [err |-> Error("runtime_error", "spin sum", 0), to_add |-> to_add,
                   types |-> types, added |-> 0, parity |-> par, min_L |-> 0, max_L |-> 0]
             ELSE IF ChecksForbidden(n) /\ calls = <<>>
             THEN [err |-> IF mother = Null THEN Crash
                           ELSE Error("InvalidDecay", "isospin", 0),
                   to_add |-> done.to_add, types |-> done.types, added |-> 0,
                   parity |-> par, min_L |-> min_L, max_L |-> max_L]
             ELSE [err |-> NoError, to_add |-> done.to_add, types |-> done.types,
                   added |-> Len(calls), parity |-> par, min_L |-> min_L,
                   max_L |-> max_L]
           Added(min_L, max_L, par, calls) ==
             Outcome(min_L, max_L, par, calls,
                     AddModes(to_add, types, mother_states, L, WithRatio(calls, ratio)))
           Bounds(sp) ==
             Added(IF n = 2 THEN min_angular_momentum(sp[1], sp[2], sp[3])
                   ELSE min_angular_momentum3(sp[1], sp[2], sp[3], sp[4]),
                   SeqSum(sp) \div 2,
                   IF n = 2 THEN iso_parity(tokens[1]) * iso_parity(tokens[2])
                   ELSE iso_parity(tokens[1]) * iso_parity(tokens[2])
                        * iso_parity(tokens[3]),
                   IF mother = Null THEN <<>> ELSE AllowedCombinations[<<mother, tokens>>])
       IN  Bounds(IF n = 2 THEN <<s0, iso_spin(tokens[1]), iso_spin(tokens[2])>>
                  ELSE MultipletSpins3(s0, tokens[1], tokens[2], tokens[3]))
  ELSE [err |-> Error("runtime_error", "multiplet count", counter), to_add |-> to_add,
        types |-> types, added |-> 0, parity |-> 1, min_L |-> 0, max_L |-> 0]

RECURSIVE SeqProduct(_)
SeqProduct(s) == IF s = <<>> THEN 1 ELSE Head(s) * SeqProduct(Tail(s))

\* the mother states an explicit line adds its mode to
ChargeMatches(mother_states, particle_types) ==
  LET total == SeqSum([i \in 1..Len(particle_types) |-> charge(particle_types[i])])
  IN  SelectSeq([m \in 1..Len(mother_states) |-> m],
                LAMBDA m : charge(mother_states[m]) = total)

\* the explicit-mode branch: daughters name single states
ExplicitLine(mother, mother_states, s0, to_add, types, counter, ratio, L, tokens) ==
  LET n == Len(tokens)
      Outcome(found, par, min_L, max_L, calls, done) ==
        LET none == [err |-> NoError, to_add |-> to_add, types |-> types, added |-> 0,
                     parity |-> par, min_L |-> 0, max_L |-> 0]
        IN  IF \E i \in 1..n : found[i] = 0
            THEN [none EXCEPT !.err = Error("runtime_error", "state not found", counter)]
            ELSE IF n # 2 /\ n # 3
            THEN [none EXCEPT !.err = IF mother = Null THEN Crash
                                      ELSE Error("InvalidDecay", "daughter count",
                                                 counter)]
            ELSE IF min_L < 0
            THEN [none EXCEPT !.err = Error("runtime_error", "spin sum", 0)]
            ELSE IF calls = <<>>
            THEN [none EXCEPT !.err = IF mother = Null THEN Crash
                                      ELSE Error("InvalidDecay", "charge", counter)]
            ELSE [err |-> NoError, to_add |-> done.to_add, types |-> done.types,
                  added |-> Len(calls), parity |-> par, min_L |-> min_L,
                  max_L |-> max_L]
      Added(found, par, min_L, max_L, calls) ==
        Outcome(found, par, min_L, max_L, calls,
                AddModes(to_add, types, mother_states, L, calls))
      Matched(found, sp, ms) ==
        Added(found,
              SeqProduct([i \in 1..n |-> IF found[i] = 0 THEN 1 ELSE parity(found[i])]),
              IF n = 2 THEN min_angular_momentum(sp[1], sp[2], sp[3])
              ELSE IF n = 3 THEN min_angular_momentum3(sp[1], sp[2], sp[3], sp[4])
              ELSE 0,
              SeqSum(sp) \div 2,
              [i \in 1..Len(ms) |-> [m |-> ms[i], particles |-> found, ratio |-> ratio]])
      Found(found) ==
        Matched(found,
                <<s0>> \o [i \in 1..n |-> IF found[i] = 0 THEN 0 ELSE spin(found[i])],
                ChargeMatches(mother_states, found))
  IN  Found([i \in 1..n |-> find_state(tokens[i])])

\* the parity test without the flip for odd L
ViolatesParityIgnoringL(n, L, par, mother_parity) == n = 2 /\ par # mother_parity

\* the parity test of a line: the daughters' parity, flipped for odd L, against
\* the mother's, for two-body decays only
ViolatesParity(n, L, par, mother_parity) ==
  n = 2 /\ (IF L % 2 = 1 THEN -par ELSE par) # mother_parity

ViolatesAngularMomentum(L, min_L, max_L) == L < min_L \/ L > max_L

\* whether a daughter token names neither a multiplet nor a state
UnknownDaughter(token) == ~iso_exists(token) /\ ~exists(token)

is_hadronic_multiplet(token) ==
  iso_exists(token) /\ is_hadron(get_states(token)[1])

\* a whole data line: the exception it ends with (NoError if none), the
\* in-progress tables and the registry afterwards, and how many modes it added.
\* mother = Null is the line read before any header: s0 is then whatever the
\* read through the null pointer gave.
DataLine(mother, s0, to_add, types, counter, number, ratio, L, tokens) ==
  LET n == Len(tokens)
      Checked(mother_states, multi, r) ==
        LET out == [err |-> r.err, to_add |-> r.to_add, types |-> r.types,
                    added |-> r.added, multi |-> multi]
        IN  IF r.err # NoError THEN out
            ELSE IF n = 2 /\ mother = Null THEN [out EXCEPT !.err = Crash]
            ELSE IF mother # Null /\
                    ViolatesParity(n, L, r.parity, parity(mother_states[1]))
            THEN [out EXCEPT !.err = Error("InvalidDecay", "parity", counter)]
            ELSE IF ViolatesAngularMomentum(L, r.min_L, r.max_L)
            THEN [out EXCEPT !.err = IF mother = Null THEN Crash
                                     ELSE Error("InvalidDecay", "angular momentum",
                                                counter)]
            ELSE out
      Parsed(mother_states, multi) ==
        LET none == [err |-> NoError, to_add |-> to_add, types |-> types, added |-> 0,
                     multi |-> multi]
        IN  IF L < 0
            THEN [none EXCEPT !.err = Error("LoadFailure", "angular momentum", number)]
            ELSE IF \E i \in 1..n : UnknownDaughter(tokens[i])
            THEN [none EXCEPT !.err = Error("InvalidDecay", "daughter", counter)]
            ELSE Checked(mother_states, multi,
                         IF multi
                         THEN MultipletLine(mother, mother_states, s0, to_add, types,
                                            counter, ratio, L, tokens)
                         ELSE ExplicitLine(mother, mother_states, s0, to_add, types,
                                           counter, ratio, L, tokens))
  IN  Parsed(IF mother = Null THEN <<>> ELSE get_states(mother),
             \A i \in 1..n : is_hadronic_multiplet(tokens[i]))

(***************************************************************************)
(* The end of a section: end_of_decaymodes.                                *)
(***************************************************************************)
EmptyTables == [p \in AllPdg |-> <<>>]

\* the first loop: check, renormalize and install the table of each mother
\* state, from state m on; a MissingDecays leaves the earlier states installed
RECURSIVE InstallStates(_, _, _, _, _)
InstallStates(mother_states, to_add, modes, large, m) ==
  IF m > Len(mother_states) THEN [err |-> NoError, modes |-> modes, large |-> large]
  ELSE IF to_add[m] = <<>> /\ ~is_stable(mother_states[m])
  THEN [err |-> Error("MissingDecays", "no decay modes", 0), modes |-> modes,
        large |-> large]
  ELSE LET Rest(r) ==
             InstallStates(mother_states, to_add,
                           [modes EXCEPT ![mother_states[m]] = r.table],
                           large + (IF r.large THEN 1 ELSE 0), m + 1)
       IN  Rest(renormalize(to_add[m]))

\* the daughters of the mirrored mode when the loop works on copies
AntiListUnchanged(list) == list

\* the daughters of the mirrored mode
AntiList(list) ==
  [i \in 1..Len(list) |->
     IF has_antiparticle(list[i]) THEN get_antiparticle(list[i]) ELSE list[i]]

\* the modes of one state mirrored onto its antiparticle, from mode k on
RECURSIVE MirrorModes(_, _, _, _)
MirrorModes(modes, types, pdg, k) ==
  IF k > Len(modes[pdg]) THEN [modes |-> modes, types |-> types]
  ELSE LET Rest(pdg_anti, got) ==
             MirrorModes([modes EXCEPT ![pdg_anti] = got.table], got.types, pdg, k + 1)
           Mirror(mode, pdg_anti) ==
             Rest(pdg_anti,
                  add_mode(modes[pdg_anti], types, pdg_anti, mode.weight,
                           types[mode.type].L, AntiList(types[mode.type].particles)))
       IN  Mirror(modes[pdg][k], get_antiparticle(pdg))

RECURSIVE MirrorStates(_, _, _, _)
MirrorStates(mother_states, modes, types, m) ==
  IF m > Len(mother_states) THEN [modes |-> modes, types |-> types]
  ELSE LET Rest(r) == MirrorStates(mother_states, r.modes, r.types, m + 1)
       IN  Rest(MirrorModes(modes, types, mother_states[m], 1))

end_of_decaymodes(mother, to_add, modes, types, large) ==
  IF mother = Null
  THEN [err |-> NoError, modes |-> modes, types |-> types, large |-> large]
  ELSE LET Mirrored(inst, mir) ==
             IF inst.err # NoError
             THEN [err |-> inst.err, modes |-> inst.modes, types |-> types,
                   large |-> inst.large]
             ELSE IF has_anti_multiplet(mother)
             THEN [err |-> NoError, modes |-> mir.modes, types |-> mir.types,
                   large |-> inst.large]
             ELSE [err |-> NoError, modes |-> inst.modes, types |-> types,
                   large |-> inst.large]
           Installed(mother_states, inst) ==
             Mirrored(inst, MirrorStates(mother_states, inst.modes, types, 1))
           Section(mother_states) ==
             Installed(mother_states,
                       InstallStates(mother_states, to_add, modes, large, 1))
       IN  Section(get_states(mother))

(***************************************************************************)
(* Minimum masses, thresholds and the Manley-Saleski pass.  cache is the   *)
(* field min_mass_kinematic_ of every species (-1: not computed yet);      *)
(* ndebug tells whether the build compiles the assertions out.             *)
(***************************************************************************)
RECURSIVE min_mass_kinematic(_, _, _, _, _, _)
RECURSIVE MinOverModes(_, _, _, _, _, _, _)
RECURSIVE threshold(_, _, _, _, _, _, _)

\* DecayType::threshold: the sum of the daughters' minimum masses, from
\* daughter k on
threshold(pt, cache, modes, types, nd, particles, k) ==
  IF k > Len(particles) THEN [cache |-> cache, value |-> 0, abort |-> FALSE]
  ELSE LET Sum(first, rest) ==
             [cache |-> rest.cache, value |-> first.value + rest.value,
              abort |-> rest.abort]
           Rest(first) ==
             IF first.abort THEN first
             ELSE Sum(first, threshold(pt, first.cache, modes, types, nd, particles, k + 1))
       IN  Rest(min_mass_kinematic(pt, cache, modes, types, nd, particles[k]))

MinOverModes(pt, cache, modes, types, nd, p, k) ==
  IF k > Len(modes[p]) THEN [cache |-> cache, value |-> cache[p], abort |-> FALSE]
  ELSE LET Rest(t) ==
             IF t.abort THEN t
             ELSE MinOverModes(pt, [t.cache EXCEPT ![p] = Min(@, t.value)], modes, types,
                               nd, p, k + 1)
       IN  Rest(threshold(pt, cache, modes, types, nd, types[modes[p][k].type].particles, 1))

\* the assertion of ParticleType::decay_modes
DecayModesAssertion(pt, modes, p) == pt[p].width = 0 \/ modes[p] # <<>>

min_mass_kinematic(pt, cache, modes, types, nd, p) ==
  IF cache[p] >= 0 THEN [cache |-> cache, value |-> cache[p], abort |-> FALSE]
  ELSE LET Compute(pole, c1) ==
             IF pt[p].width = 0 THEN [cache |-> c1, value |-> pole, abort |-> FALSE]
             ELSE IF ~nd /\ ~DecayModesAssertion(pt, modes, p)
             THEN [cache |-> c1, value |-> pole, abort |-> TRUE]
             ELSE MinOverModes(pt, c1, modes, types, nd, p, 1)
           Start(pole) == Compute(pole, [cache EXCEPT ![p] = pole])
       IN  Start(pt[p].mass)

\* the test with a pole mass at the threshold accepted
ViolatesManleySaleskiBelow(mother_mass, thr) == mother_mass < thr

\* the test of the Manley-Saleski pass on one mode
ViolatesManleySaleski(mother_mass, thr) == mother_mass <= thr

\* the modes of the mother at position i of the catalogue, from mode k on
RECURSIVE ManleySaleski(_, _, _, _, _, _)
ManleySaleski(cache, modes, types, nd, i, k) ==
  IF i > Len(list_all) THEN [err |-> NoError, cache |-> cache]
  ELSE LET Check(mother, t) ==
             IF t.abort THEN [err |-> Error("abort", "assertion", 0), cache |-> t.cache]
             ELSE IF ViolatesManleySaleski(mass(mother), t.value)
             THEN [err |-> Error("InvalidDecay", "Manley-Saleski", 0),
                   cache |-> t.cache]
             ELSE ManleySaleski(t.cache, modes, types, nd, i, k + 1)
           Mother(mother) ==
             IF is_stable(mother) THEN ManleySaleski(cache, modes, types, nd, i + 1, 1)
             ELSE IF ~nd /\ ~DecayModesAssertion(ParticleTypes, modes, mother)
             THEN [err |-> Error("abort", "assertion", 0), cache |-> cache]
             ELSE IF k > Len(modes[mother])
             THEN ManleySaleski(cache, modes, types, nd, i + 1, 1)
             ELSE Check(mother,
                        threshold(ParticleTypes, cache, modes, types, nd,
                                  types[modes[mother][k].type].particles, 1))
       IN  Mother(list_all[i])

(***************************************************************************)
(* State.                                                                  *)
(***************************************************************************)
\* the state of the run-time functions, which load_decaymodes leaves alone
runtime == <<requests, min_mass_spectral_, norm_factor_, max_factor1_, max_factor2_,
             returned, history, pc, frame, map_possible_resonances_of>>

vars == <<status, error, ndebug, all_decay_types, all_decay_modes, isotype_mother,
          decay_modes_to_add, total_large_renormalized, linenumber, physical, line,
          nrecords, ncomments, min_mass_kinematic_, finalized, last, runtime>>

\* no run-time function has been called
NoCall == [op |-> "none"]

\* the run-time state while the tables are built
RuntimeIdle ==
  /\ requests = <<>>
  /\ min_mass_spectral_ = [p \in AllPdg |-> -1]
  /\ norm_factor_ = [p \in AllPdg |-> Rat(-1, 1)]
  /\ max_factor1_ = [p \in AllPdg |-> One]
  /\ max_factor2_ = [p \in AllPdg |-> One]
  /\ returned = NoCall
  /\ history = <<>>
  /\ pc = <<>>
  /\ frame = <<>>
  /\ map_possible_resonances_of = {}

NoRecord ==
  [kind |-> "none", multi |-> FALSE, L |-> 0, tokens |-> <<>>, added |-> 0]

Init ==
  /\ status = "idle"
  /\ error = NoError
  /\ ndebug \in BOOLEAN
  /\ all_decay_types = <<>>
  /\ all_decay_modes = EmptyTables
  /\ isotype_mother = Null
  /\ decay_modes_to_add = <<>>
  /\ total_large_renormalized = 0
  /\ linenumber = 0
  /\ physical = 0
  /\ line = 0
  /\ nrecords = 0
  /\ ncomments = 0
  /\ min_mass_kinematic_ = [p \in AllPdg |-> -1]
  /\ finalized = {}
  /\ last = NoRecord
  /\ RuntimeIdle

\* the entry of load_decaymodes: the static vectors are cleared and published
LoadBegin ==
  /\ status = "idle"
  /\ status' = "loading"
  /\ all_decay_types' = <<>>
  /\ all_decay_modes' = EmptyTables
  /\ isotype_mother' = Null
  /\ decay_modes_to_add' = <<>>
  /\ total_large_renormalized' = 0
  /\ linenumber' = 1
  /\ UNCHANGED <<error, ndebug, physical, line, nrecords, ncomments,
                 min_mass_kinematic_, finalized, last, runtime>>

\* line_parser drops a comment or an empty line
SkipLine ==
  /\ status = "loading"
  /\ ncomments < MaxComments
  /\ nrecords < MaxLines
  /\ physical' = physical + 1
  /\ ncomments' = ncomments + 1
  /\ UNCHANGED <<status, error, ndebug, all_decay_types, all_decay_modes,
                 isotype_mother, decay_modes_to_add, total_large_renormalized,
                 linenumber, line, nrecords, min_mass_kinematic_, finalized, last,
                 runtime>>

\* the exception leaves load_decaymodes: the locals are gone, the statics stay
Throw(err, types, modes) ==
  /\ status' = "failed"
  /\ error' = err
  /\ all_decay_types' = types
  /\ all_decay_modes' = modes
  /\ UNCHANGED <<isotype_mother, decay_modes_to_add, total_large_renormalized,
                 linenumber>>

\* the multiplets whose section the end of the current section finalizes
Finalizes(r) ==
  IF isotype_mother # Null /\ r.err = NoError THEN {isotype_mother} ELSE {}

\* a header record: the previous section ends, a new one starts
ReadHeader(header) ==
  /\ status = "loading"
  /\ nrecords < MaxLines
  /\ physical' = physical + 1
  /\ line' = physical + 1
  /\ nrecords' = nrecords + 1
  /\ last' = [kind |-> "header", multi |-> FALSE, L |-> 0, tokens |-> <<header>>,
               added |-> 0]
  /\ \E r \in {end_of_decaymodes(isotype_mother, decay_modes_to_add, all_decay_modes,
                                  all_decay_types, total_large_renormalized)} :
         /\ finalized' = finalized \cup Finalizes(r)
         /\ IF r.err # NoError THEN Throw(r.err, r.types, r.modes)
            ELSE IF ~iso_exists(header)
            THEN Throw(Error("runtime_error", "multiplet not found", 0), r.types, r.modes)
            ELSE IF \E p \in Range(get_states(header)) : r.modes[p] # <<>>
            THEN Throw(Error("LoadFailure", "duplicate", linenumber), r.types, r.modes)
            ELSE /\ isotype_mother' = header
                 /\ decay_modes_to_add' = [m \in 1..Len(get_states(header)) |-> <<>>]
                 /\ all_decay_types' = r.types
                 /\ all_decay_modes' = r.modes
                 /\ total_large_renormalized' = r.large
                 /\ linenumber' = linenumber + 1
                 /\ UNCHANGED <<status, error>>
  /\ UNCHANGED <<ndebug, ncomments, min_mass_kinematic_, runtime>>

\* a data line: ratio, L and the daughters
ReadDataLine(ratio, L, tokens, garbage) ==
  /\ status = "loading"
  /\ nrecords < MaxLines
  /\ physical' = physical + 1
  /\ line' = physical + 1
  /\ nrecords' = nrecords + 1
  /\ \E r \in {DataLine(isotype_mother,
                          IF isotype_mother = Null THEN garbage
                          ELSE iso_spin(isotype_mother),
                          decay_modes_to_add, all_decay_types, linenumber, physical + 1,
                          ratio, L, tokens)} :
         /\ last' = [kind |-> "data", multi |-> r.multi, L |-> L, tokens |-> tokens,
                     added |-> r.added]
         /\ IF r.err # NoError THEN Throw(r.err, r.types, all_decay_modes)
            ELSE /\ decay_modes_to_add' = r.to_add
                 /\ all_decay_types' = r.types
                 /\ linenumber' = linenumber + 1
                 /\ UNCHANGED <<status, error, all_decay_modes, isotype_mother,
                                total_large_renormalized>>
  /\ UNCHANGED <<ndebug, ncomments, min_mass_kinematic_, finalized, runtime>>

\* the end of the input: the last section ends, then the Manley-Saleski pass
EndOfInput ==
  /\ status = "loading"
  /\ \E r \in {end_of_decaymodes(isotype_mother, decay_modes_to_add, all_decay_modes,
                                  all_decay_types, total_large_renormalized)} :
         /\ finalized' = finalized \cup Finalizes(r)
         /\ IF r.err # NoError
            THEN Throw(r.err, r.types, r.modes) /\ UNCHANGED min_mass_kinematic_
            ELSE \E ms \in {ManleySaleski(min_mass_kinematic_, r.modes, r.types,
                                          ndebug, 1, 1)} :
                 /\ min_mass_kinematic_' = ms.cache
                 /\ all_decay_types' = r.types
                 /\ all_decay_modes' = r.modes
                 /\ total_large_renormalized' = r.large
                 /\ status' = IF ms.err = NoError THEN "ok" ELSE "failed"
                 /\ error' = ms.err
                 /\ UNCHANGED <<isotype_mother, decay_modes_to_add, linenumber>>
  /\ UNCHANGED <<ndebug, physical, line, nrecords, ncomments, last, runtime>>

Next ==
  \/ LoadBegin
  \/ SkipLine
  \/ \E header \in HeaderNames : ReadHeader(header)
  \/ \E ratio \in Ratios, L \in AngularMomenta, tokens \in DaughterLists,
        garbage \in GarbageSpins :
       /\ (isotype_mother # Null => garbage = 0)
       /\ ReadDataLine(ratio, L, tokens, garbage)
  \/ EndOfInput

Spec == Init /\ [][Next]_vars

(***************************************************************************)
(* Properties of the installed tables.                                     *)
(***************************************************************************)
\* load_decaymodes has returned without an exception
Loaded == status = "ok"

\* load_decaymodes has ended with one of its exceptions
Failed == status = "failed" /\ error.type \in {"LoadFailure", "InvalidDecay",
                                                 "MissingDecays", "runtime_error"}

\* the positions of the modes installed for a species
ModesOf(p) == 1..Len(all_decay_modes[p])

\* the daughters and the angular momentum of the k-th mode installed for p
DaughtersOf(p, k) == all_decay_types[all_decay_modes[p][k].type].particles

AngularMomentumOf(p, k) == all_decay_types[all_decay_modes[p][k].type].L

\* the antiparticle of a species, the species itself if it has none
Conjugate(p) == IF has_antiparticle(p) THEN get_antiparticle(p) ELSE p

\* a parity carried through an orbital angular momentum L
Flip(L, par) == IF L % 2 = 1 THEN -par ELSE par

WithinTolerance(sum) == RLess(RAbs(RSub(sum, One)), really_small)

\* C1: after a successful load the branch weights of every species with a
\* non-empty installed table sum to 1 within the tolerance, whatever ratios
\* the data lines carried
C1_WeightsSumToOne ==
  Loaded => \A p \in AllPdg :
              all_decay_modes[p] # <<>> => WithinTolerance(WeightSum(all_decay_modes[p]))

\* C2: after a successful load the charges of the daughters of every installed
\* mode add up to the charge of the mother
C2_ChargeConserved ==
  Loaded => \A p \in AllPdg : \A k \in ModesOf(p) :
              LET d == DaughtersOf(p, k)
              IN  SeqSum([i \in 1..Len(d) |-> charge(d[i])]) = charge(p)

\* C3: after a successful load the baryon numbers and the strangenesses of the
\* daughters of every installed mode add up to those of the mother
C3_BaryonNumberAndStrangenessConserved ==
  Loaded => \A p \in AllPdg : \A k \in ModesOf(p) :
              LET d == DaughtersOf(p, k)
              IN  /\ SeqSum([i \in 1..Len(d) |-> baryon_number(d[i])]) = baryon_number(p)
                  /\ SeqSum([i \in 1..Len(d) |-> strangeness(d[i])]) = strangeness(p)

\* every installed two-body mode conserves parity
InstalledParityConserved ==
  \A p \in AllPdg : \A k \in ModesOf(p) :
    LET d == DaughtersOf(p, k)
    IN  Len(d) = 2 =>
          Flip(AngularMomentumOf(p, k), parity(d[1]) * parity(d[2])) = parity(p)

\* the parity of what a daughter token names
TokenParity(token) ==
  IF iso_exists(token) THEN iso_parity(token) ELSE parity(find_state(token))

\* the record last read is a two-body data line of a section, with L >= 0 and
\* known daughters, whose parity differs from the mother's
LineViolatesParity ==
  /\ last.kind = "data"
  /\ isotype_mother # Null
  /\ last.L >= 0
  /\ Len(last.tokens) = 2
  /\ \A i \in 1..2 : ~UnknownDaughter(last.tokens[i])
  /\ Flip(last.L, TokenParity(last.tokens[1]) * TokenParity(last.tokens[2]))
       # iso_parity(isotype_mother)

\* the errors of the checks a data line goes through before its parity check
EarlierCheckFailed ==
  \/ error.type = "runtime_error" /\ error.what \in {"spin sum", "state not found"}
  \/ error.type = "InvalidDecay" /\ error.what \in {"isospin", "charge"}

ParityReported == error.type = "InvalidDecay" /\ error.what = "parity"

\* C4 (as amended): after a successful load every installed two-body mode, of
\* the mother states and of the mirrored anti-states, conserves parity; a
\* two-body line that violates it makes the load fail, with the parity
\* InvalidDecay unless an earlier check of that line fails first
C4_ParityConserved ==
  /\ Loaded => InstalledParityConserved
  /\ LineViolatesParity => status = "failed" /\ (ParityReported \/ EarlierCheckFailed)

\* C4 (as stated): a two-body line that violates parity always fails with the
\* parity InvalidDecay
C4_ParityAlwaysReported ==
  /\ Loaded => InstalledParityConserved
  /\ LineViolatesParity => status = "failed" /\ ParityReported

\* a successful load with a two-body mode mirrored onto an anti-state
C4_Witness ==
  /\ Loaded
  /\ \E m \in finalized :
       /\ has_anti_multiplet(m)
       /\ \E p \in Range(get_states(m)) : \E k \in ModesOf(get_antiparticle(p)) :
            Len(DaughtersOf(get_antiparticle(p), k)) = 2

\* the bounds of L the spins of the mother and of the daughters allow
ActualMinL(p, d) ==
  IF Len(d) = 2 THEN min_angular_momentum(spin(p), spin(d[1]), spin(d[2]))
  ELSE min_angular_momentum3(spin(p), spin(d[1]), spin(d[2]), spin(d[3]))

ActualMaxL(p, d) == (spin(p) + SeqSum([i \in 1..Len(d) |-> spin(d[i])])) \div 2

\* C5: after a successful load the L of every installed mode lies between the
\* bounds computed from the spins of the mother and of the mode's own daughters
C5_AngularMomentumInBounds ==
  Loaded => \A p \in AllPdg : \A k \in ModesOf(p) :
              /\ ActualMinL(p, DaughtersOf(p, k)) <= AngularMomentumOf(p, k)
              /\ AngularMomentumOf(p, k) <= ActualMaxL(p, DaughtersOf(p, k))

\* what a table holds: weight, L and daughters of each mode
Contents(p) ==
  [k \in ModesOf(p) |-> [weight |-> all_decay_modes[p][k].weight,
                         L |-> AngularMomentumOf(p, k),
                         particles |-> Sorted(DaughtersOf(p, k))]]

\* what the table of the antiparticle of p has to hold
MirroredContents(p) ==
  [k \in ModesOf(p) |->
     [weight |-> all_decay_modes[p][k].weight,
      L |-> AngularMomentumOf(p, k),
      particles |-> Sorted([i \in 1..Len(DaughtersOf(p, k)) |->
                              Conjugate(DaughtersOf(p, k)[i])])]]

\* C6: once the section of a multiplet with an anti-multiplet is finalized, the
\* table of each anti-state holds one mode per mode of the original state, with
\* the same weight and L and the conjugated daughters, and nothing else
C6_MirroringExact ==
  \A m \in finalized :
    has_anti_multiplet(m) =>
      \A p \in Range(get_states(m)) : Contents(get_antiparticle(p)) = MirroredContents(p)

\* a finalized section whose anti-states hold several mirrored modes
C6_Witness ==
  \E m \in finalized :
    /\ has_anti_multiplet(m)
    /\ \E p \in Range(get_states(m)) : Len(all_decay_modes[get_antiparticle(p)]) >= 2

\* C7: after a successful load the installed table of a species is empty
\* exactly if the species is stable
C7_EmptyIffStable ==
  Loaded => \A p \in AllPdg : (all_decay_modes[p] = <<>>) <=> is_stable(p)

\* C8: after a failed load no table the call installed is left to be seen
C8_NoPartialTables == Failed => all_decay_modes = EmptyTables

\* C9: the charge-conservation InvalidDecay reports the number the offending
\* line has in the input text
C9_ChargeErrorLineNumber ==
  (status = "failed" /\ error.type = "InvalidDecay" /\ error.what = "charge")
    => error.line = line

\* the record last read is a data line of a section that names two or three
\* daughter multiplets no state combination of which has a non-zero
\* squared Clebsch-Gordan coefficient
LineForbiddenByIsospin ==
  /\ last.kind = "data"
  /\ last.multi
  /\ isotype_mother # Null
  /\ Len(last.tokens) \in {2, 3}
  /\ AllowedCombinations[<<isotype_mother, last.tokens>>] = <<>>

\* C10: a multiplet-mode line that isospin forbids makes the load fail
C10_ForbiddenLineFails == LineForbiddenByIsospin => status = "failed"

(***************************************************************************)
(* The Manley-Saleski pass.                                                *)
(***************************************************************************)
\* the threshold of the k-th mode installed for p, from the minimum masses
\* the pass has cached
ThresholdOf(p, k) ==
  SeqSum([i \in 1..Len(DaughtersOf(p, k)) |-> min_mass_kinematic_[DaughtersOf(p, k)[i]]])

\* the section that was open when the input ended has been installed
LastSectionFinalized == isotype_mother = Null \/ isotype_mother \in finalized

\* C11: load_decaymodes returns successfully only if the pole mass of every
\* unstable species is strictly above the threshold of every mode of its
\* installed table, mirrored tables included; and a Manley-Saleski violation
\* is raised only after the last section has been finalized without an error
C11_ManleySaleski ==
  /\ Loaded =>
       \A p \in AllPdg : ~is_stable(p) =>
         \A k \in ModesOf(p) : mass(p) > ThresholdOf(p, k)
  /\ (status = "failed" /\ error.what = "Manley-Saleski") => LastSectionFinalized

\* a load has succeeded with the modes of a species and of its antiparticle
\* installed and tested
C11_Witness ==
  /\ Loaded
  /\ \E p \in AllPdg : /\ ~is_stable(p) /\ has_antiparticle(p)
                        /\ ModesOf(p) # {} /\ ModesOf(get_antiparticle(p)) # {}

\* a load has been rejected for a pole mass equal to a threshold
AtThresholdRejected ==
  /\ status = "failed" /\ error.what = "Manley-Saleski"
  /\ \E p \in AllPdg : ~is_stable(p) /\ \E k \in ModesOf(p) :
        /\ \A i \in 1..Len(DaughtersOf(p, k)) :
             min_mass_kinematic_[DaughtersOf(p, k)[i]] >= 0
        /\ mass(p) = ThresholdOf(p, k)

(***************************************************************************)
(* The registry of decay types under arbitrary get_decay_type calls.       *)
(***************************************************************************)
\* number of get_decay_type calls of one construction pass
MaxCalls == 3

\* the mothers, daughter lists and angular momenta of the calls
CallMothers == {113, 333}

CallDaughters ==
  { <<211, -211>>, <<-211, 211>>, <<111, 22>>, <<11, -11>>,
    <<111, -11, 11>>, <<111, 11, -11>>, <<211, 113, -211>>, <<111>> }

CallAngularMomenta == {0, 1}

\* the construction pass has published an empty registry
InitTypes ==
  /\ status = "loading"
  /\ error = NoError
  /\ ndebug = TRUE
  /\ all_decay_types = <<>>
  /\ all_decay_modes = EmptyTables
  /\ isotype_mother = Null
  /\ decay_modes_to_add = <<>>
  /\ total_large_renormalized = 0
  /\ linenumber = 1
  /\ physical = 0
  /\ line = 0
  /\ nrecords = 0
  /\ ncomments = 0
  /\ min_mass_kinematic_ = [p \in AllPdg |-> -1]
  /\ finalized = {}
  /\ last = NoRecord
  /\ RuntimeIdle

\* one call of DecayModes::get_decay_type
GetDecayType(mother, particle_types, L) ==
  /\ Len(requests) < MaxCalls
  /\ \E r \in {get_decay_type(all_decay_types, mother, particle_types, L)} :
       /\ all_decay_types' = r.types
       /\ requests' = Append(requests,
                             [mother |-> mother, particles |-> particle_types, L |-> L,
                              type |-> r.type,
                              found |-> MatchingTypes(all_decay_types, mother,
                                                      particle_types, L) # {},
                              before |-> Len(all_decay_types),
                              after |-> Len(r.types)])
  /\ UNCHANGED <<status, error, ndebug, all_decay_modes, isotype_mother,
                 decay_modes_to_add, total_large_renormalized, linenumber, physical,
                 line, nrecords, ncomments, min_mass_kinematic_, finalized, last,
                 min_mass_spectral_, norm_factor_, max_factor1_, max_factor2_,
                 returned, history, pc, frame, map_possible_resonances_of>>

NextTypes ==
  \E mother \in CallMothers, particle_types \in CallDaughters,
     L \in CallAngularMomenta : GetDecayType(mother, particle_types, L)

SpecTypes == InitTypes /\ [][NextTypes]_vars

\* the calls that returned a decay type (the others threw InvalidDecay)
Answered == {i \in 1..Len(requests) : requests[i].type # 0}

\* two calls name the same mother as far as the decay type keeps one
SameMother(i, j) ==
  all_decay_types[requests[i].type].kind = "ThreeBodyDecayDilepton"
    => requests[i].mother = requests[j].mother

\* a call that found a match has left the registry as it was
MatchesDoNotGrow ==
  \A i \in 1..Len(requests) : requests[i].found => requests[i].after = requests[i].before

DuplicateHeaderRead ==
  /\ status = "loading"
  /\ nrecords' = nrecords + 1
  /\ last'.kind = "header"
  /\ last'.tokens[1] \in finalized \cup {isotype_mother}

\* C13: a header that names a mother multiplet that already had a section
\* earlier in the same input makes load_decaymodes fail with LoadFailure,
\* whatever the earlier section contained
C13_DuplicateHeaderFails ==
  [][DuplicateHeaderRead => (status' = "failed" /\ error'.type = "LoadFailure")]_vars

\* a header has been accepted although its multiplet had a section before
DuplicateHeaderAccepted ==
  status = "loading" /\ last.kind = "header" /\ isotype_mother = last.tokens[1]
  /\ isotype_mother \in finalized

(***************************************************************************)
(* The tables the run-time functions work on: those load_decaymodes        *)
(* installs for a few inputs.                                              *)
(***************************************************************************)
Header(m) == [kind |-> "header", name |-> m]

Data(ratio, L, tokens) == [kind |-> "data", ratio |-> ratio, L |-> L, tokens |-> tokens]

\* the records of the inputs: the rho section with two modes, and the phi
\* section with the rho section
RuntimeInputs ==
  { << Header(Nm("rho", "")), Data(One, 1, <<Nm("pi", ""), Nm("pi", "")>>),
       Data(One, 1, <<Nm("pi", "0"), Nm("gamma", "")>>) >>,
    << Header(Nm("phi", "")),
       Data(One, 1, <<Nm("K", "+"), [Nm("K", "-") EXCEPT !.bar = TRUE]>>),
       Header(Nm("rho", "")), Data(One, 1, <<Nm("pi", ""), Nm("pi", "")>>) >> }

\* load_decaymodes on the records from position i on; st holds the statics
\* and the locals of the call
RECURSIVE LoadRecords(_, _, _)
LoadRecords(st, records, i) ==
  LET Ended(r) ==
        IF r.err # NoError THEN [st EXCEPT !.err = r.err]
        ELSE IF i > Len(records)
        THEN [st EXCEPT !.modes = r.modes, !.types = r.types,
                        !.pass = ManleySaleski(st.cache, r.modes, r.types, TRUE, 1, 1)]
        ELSE LoadRecords([st EXCEPT !.modes = r.modes, !.types = r.types,
                                    !.large = r.large, !.mother = records[i].name,
                                    !.to_add = [m \in 1..Len(get_states(records[i].name))
                                                  |-> <<>>],
                                    !.counter = @ + 1],
                         records, i + 1)
      Read(r) ==
        IF r.err # NoError THEN [st EXCEPT !.err = r.err]
        ELSE LoadRecords([st EXCEPT !.to_add = r.to_add, !.types = r.types,
                                    !.counter = @ + 1],
                         records, i + 1)
  IN  IF i > Len(records) \/ records[i].kind = "header"
      THEN Ended(end_of_decaymodes(st.mother, st.to_add, st.modes, st.types, st.large))
      ELSE Read(DataLine(st.mother, iso_spin(st.mother), st.to_add, st.types,
                         st.counter, i, records[i].ratio, records[i].L,
                         records[i].tokens))

\* what load_decaymodes leaves behind for an input
Loading(records) ==
  LoadRecords([mother |-> Null, to_add |-> <<>>, modes |-> EmptyTables, types |-> <<>>,
               large |-> 0, counter |-> 1, cache |-> [p \in AllPdg |-> -1],
               err |-> NoError, pass |-> [err |-> NoError, cache |-> <<>>]],
              records, 1)

\* the tables, the registry and the cached minimum masses after the loads
\* that succeed
LoadedTables ==
  LET Succeeded(all) == {st \in all : st.err = NoError /\ st.pass.err = NoError}
  IN  Succeeded({Loading(records) : records \in RuntimeInputs})

(***************************************************************************)
(* Widths and spectral functions.  A mass is an integer number of mass     *)
(* units of 2^-10 keV, so that the interval of the bisection halves        *)
(* exactly; widths are rationals in GeV.                                   *)
(***************************************************************************)
\* const double precision = 1E-6 (GeV), in mass units
precision == 1024

\* const double m_step = 0.01 (GeV), in mass units
m_step == 10000 * precision

MeV == 1000 * precision

\* the smallest width of an unstable species
width_cutoff == Rat(1, 100000)

\* the cached kinematic minimum masses are kept in MeV, as the catalogue's masses
InUnits(mev) == mev * MeV

\* the mass dependence of a partial width, relative to the pole: suppressed
\* within (2L + 1) MeV of the threshold, half below the pole, one from the pole on
PhaseSpace(x, span, L) ==
  IF x < (2 * L + 1) * MeV THEN Rat(1, 1000)
  ELSE IF x < span THEN Rat(1, 2)
  ELSE One

\* DecayType::width(m0, G0, m) of a type with the given threshold
decay_type_width(thr, L, m0, G0, m) == RMul(G0, PhaseSpace(m - thr, m0 - thr, L))

\* In the operators below the result of a call that is used more than once
\* is bound as the element of a singleton set.

\* ParticleType::partial_width(m, mode) for the k-th mode of p
partial_width(pt, cache, modes, types, p, m, k) ==
  CHOOSE pw \in
    {[cache |-> t.cache,
      value |-> IF m < InUnits(t.value) THEN Zero
                ELSE decay_type_width(InUnits(t.value), types[modes[p][k].type].L,
                                      InUnits(pt[p].mass),
                                      RMul(Rat(pt[p].width, 1000),
                                           modes[p][k].weight),
                                      m)] :
       t \in {threshold(pt, cache, modes, types, TRUE,
                        types[modes[p][k].type].particles, 1)}} : TRUE

\* the loop of total_width from mode k on, w being the sum so far
RECURSIVE WidthSum(_, _, _, _, _, _, _, _)
WidthSum(pt, cache, modes, types, p, m, k, w) ==
  IF k > Len(modes[p]) THEN [cache |-> cache, value |-> w]
  ELSE CHOOSE s \in
         {WidthSum(pt, pw.cache, modes, types, p, m, k + 1, RAdd(w, pw.value)) :
            pw \in {partial_width(pt, cache, modes, types, p, m, k)}} : TRUE

\* total_width without the cutoff
total_width_uncut(pt, cache, modes, types, p, m) ==
  IF pt[p].width = 0 THEN [cache |-> cache, value |-> Zero]
  ELSE WidthSum(pt, cache, modes, types, p, m, 1, Zero)

\* ParticleType::total_width(m)
total_width(pt, cache, modes, types, p, m) ==
  IF pt[p].width = 0 THEN [cache |-> cache, value |-> Zero]
  ELSE CHOOSE tw \in
         {[cache |-> s.cache,
           value |-> IF RLess(s.value, width_cutoff) THEN Zero ELSE s.value] :
            s \in {WidthSum(pt, cache, modes, types, p, m, 1, Zero)}} : TRUE

\* the Breit-Wigner function of a width, on a grid of 100 MeV around the
\* pole: 1/width at the pole, width/distance^2 in the tails
breit_wigner(m, pole, w) ==
  LET Shape(dist) ==
        IF dist = 0 THEN RDiv(One, w) ELSE RDiv(w, Rat(dist * dist, 1))
  IN  Shape(Abs(m - pole) \div (100 * MeV))

breit_wigner_nonrel(m, pole, w) == breit_wigner(m, pole, w)

\* ParticleType::spectral_function_no_norm(m)
spectral_function_no_norm(pt, cache, modes, types, p, m) ==
  CHOOSE sf \in
    {[cache |-> tw.cache,
      value |-> IF RLess(tw.value, width_cutoff) THEN Zero
                ELSE breit_wigner(m, InUnits(pt[p].mass), tw.value)] :
       tw \in {total_width(pt, cache, modes, types, p, m)}} : TRUE

\* ParticleType::spectral_function_simple(m)
spectral_function_simple(pt, p, m) ==
  breit_wigner_nonrel(m, InUnits(pt[p].mass), Rat(pt[p].width, 1000))

\* the integral of the unnormalized spectral function from the kinematic
\* minimum on, by one node at the pole, where the Jacobian is the pole width
Integrate(at_pole, jacobian) == RMul(at_pole, jacobian)

\* the caches after the normalization factor of p is initialized: c holds
\* the cached minimum masses (kin, spec) and the cached normalizations (norm)
\* of all species
norm_factor(pt, c, modes, types, p) ==
  CHOOSE cn \in
    {CHOOSE cp \in
       {[c EXCEPT !.kin = at_pole.cache,
                  !.norm[p] = RDiv(One, Integrate(at_pole.value,
                                                  Rat(pt[p].width, 1000)))] :
          at_pole \in {spectral_function_no_norm(pt, mk.cache, modes, types, p,
                                                 InUnits(pt[p].mass))}} : TRUE :
       mk \in {min_mass_kinematic(pt, c.kin, modes, types, TRUE, p)}} : TRUE

\* spectral_function whose normalizing call returns the unnormalized value
spectral_function_unnormalized_first(pt, c, modes, types, p, m) ==
  CHOOSE r \in
    {CHOOSE sf \in
       {[c |-> [cn EXCEPT !.kin = nn.cache],
         value |-> RMul(IF RLess(c.norm[p], Zero) THEN One ELSE cn.norm[p],
                        nn.value)] :
          nn \in {spectral_function_no_norm(pt, cn.kin, modes, types, p, m)}} : TRUE :
       cn \in {IF RLess(c.norm[p], Zero) THEN norm_factor(pt, c, modes, types, p)
               ELSE c}} : TRUE

\* ParticleType::spectral_function(m)
spectral_function(pt, c, modes, types, p, m) ==
  CHOOSE r \in
    {CHOOSE sf \in
       {[c |-> [cn EXCEPT !.kin = nn.cache], value |-> RMul(cn.norm[p], nn.value)] :
          nn \in {spectral_function_no_norm(pt, cn.kin, modes, types, p, m)}} : TRUE :
       cn \in {IF RLess(c.norm[p], Zero) THEN norm_factor(pt, c, modes, types, p)
               ELSE c}} : TRUE

\* iterations of the search for the right bound, after which it is given up
MaxBracket == 3

\* the bisection of min_mass_spectral between a left and a right bound
RECURSIVE Bisection(_, _, _, _, _, _, _)
Bisection(pt, c, modes, types, p, left_bound_bis, right_bound_bis) ==
  IF ~(right_bound_bis - left_bound_bis > precision)
  THEN [c |-> c, value |-> right_bound_bis]
  ELSE CHOOSE b \in
         {IF RLess(really_small, sf.value)
          THEN Bisection(pt, sf.c, modes, types, p, left_bound_bis,
                         (left_bound_bis + right_bound_bis) \div 2)
          ELSE Bisection(pt, sf.c, modes, types, p,
                         (left_bound_bis + right_bound_bis) \div 2, right_bound_bis) :
            sf \in {spectral_function(pt, c, modes, types, p,
                                      (left_bound_bis + right_bound_bis) \div 2)}} :
         TRUE

\* the search stepping down from the kinematic minimum
RECURSIVE RightBoundDownwards(_, _, _, _, _, _, _)
RightBoundDownwards(pt, c, modes, types, p, mk, i) ==
  IF i > MaxBracket THEN [c |-> c, value |-> -1]
  ELSE CHOOSE b \in
         {IF RLess(really_small, sf.value)
          THEN [c |-> sf.c, value |-> mk - m_step * i]
          ELSE RightBoundDownwards(pt, sf.c, modes, types, p, mk, i + 1) :
            sf \in {spectral_function(pt, c, modes, types, p, mk - m_step * i)}} : TRUE

\* the search for a mass where the spectral function is not negligible, in
\* steps of m_step from the kinematic minimum
RECURSIVE RightBound(_, _, _, _, _, _, _)
RightBound(pt, c, modes, types, p, mk, i) ==
  IF i > MaxBracket THEN [c |-> c, value |-> -1]
  ELSE CHOOSE b \in
         {IF RLess(really_small, sf.value)
          THEN [c |-> sf.c, value |-> mk + m_step * i]
          ELSE RightBound(pt, sf.c, modes, types, p, mk, i + 1) :
            sf \in {spectral_function(pt, c, modes, types, p, mk + m_step * i)}} : TRUE

\* min_mass_spectral after min_mass_spectral_ = min_mass_kinematic() = mk
\* with the caches c; value -1 stands for a search that does not end
min_mass_search(pt, c, modes, types, p, mk) ==
  CHOOSE found \in
    {IF pt[p].width # 0 /\ RLess(sf.value, really_small)
     THEN CHOOSE bisected \in
            {IF r.value < 0 THEN r
             ELSE CHOOSE set \in
                    {[c |-> [b.c EXCEPT !.spec[p] = b.value], value |-> b.value] :
                       b \in {Bisection(pt, r.c, modes, types, p, r.value - m_step,
                                        r.value)}} : TRUE :
               r \in {RightBound(pt, sf.c, modes, types, p, mk, 0)}} : TRUE
     ELSE [c |-> sf.c, value |-> mk] :
       sf \in {IF pt[p].width = 0 THEN [c |-> c, value |-> Zero]
               ELSE spectral_function(pt, c, modes, types, p, mk)}} : TRUE

\* ParticleType::min_mass_spectral()
min_mass_spectral(pt, c, modes, types, p) ==
  IF c.spec[p] >= 0 THEN [c |-> c, value |-> c.spec[p]]
  ELSE CHOOSE mn \in
         {min_mass_search(pt, [c EXCEPT !.kin = k.cache, !.spec[p] = InUnits(k.value)],
                          modes, types, p, InUnits(k.value)) :
            k \in {min_mass_kinematic(pt, c.kin, modes, types, TRUE, p)}} : TRUE

(***************************************************************************)
(* Resonance mass sampling.  The random numbers of a call are its draws: a   *)
(* draw is the mass returned by random::cauchy and the fraction of the       *)
(* maximum returned by random::uniform(0., max).                             *)
(***************************************************************************)
\* std::nextafter(x, 0.) on the grid of the masses
nextafter(x) == IF x > 0 THEN x - 1 ELSE IF x < 0 THEN x + 1 ELSE 0

\* pCM(sqrts, ma, mb), in steps of 10 MeV: 0 up to the threshold, falling
\* with the masses
pCM(sqrts, ma, mb) ==
  IF sqrts - ma - mb > 0 THEN Rat((sqrts - ma - mb) \div (10 * MeV), 100) ELSE Zero

\* blatt_weisskopf_sqr(p_ab, L): 1 for L = 0, rising from 0 to 1 otherwise
blatt_weisskopf_sqr(p_ab, L) == IF L = 0 THEN One ELSE RDiv(p_ab, RAdd(One, p_ab))

\* the masses random::cauchy(pole, width, min, max) returns, of the masses
\* from min to max the two bounds; for min > max (a uniform distribution
\* over an interval with its bounds exchanged, which is undefined) a mass
\* from max to min, when it returns at all
cauchy(lo, hi) == {lo, hi}

\* random::uniform(0., max) returns the fraction u of max
Fractions == {Zero, Rat(9, 10)}

\* a number that is never below the upper bound
uniform_beyond(hi, u) == RMul(Rat(3, 1), hi)

uniform(hi, u) == RMul(u, hi)

\* std::max(1., x)
max_of_one(x) == IF RLess(One, x) THEN x ELSE One

\* draws of the inner loop in one call
MaxDraws == 2

Draws(S) == UNION {[1..n -> S] : n \in 1..MaxDraws}

\* the ratio of the full to the simple spectral function at m
sf_ratio(pt, c, modes, types, p, m) ==
  CHOOSE q \in
    {RDiv(sf.value, simple) :
       sf \in {spectral_function(pt, c, modes, types, p, m)},
       simple \in {spectral_function_simple(pt, p, m)}} : TRUE

\* pcm * blatt_weisskopf_sqr(pcm, L)
blw(pcm, L) == RMul(pcm, blatt_weisskopf_sqr(pcm, L))

\* val of sample_resonance_mass for the candidate mass m
candidate_value(pt, c, modes, types, p, in, m) ==
  CHOOSE val \in
    {RMul(q, b) :
       q \in {sf_ratio(pt, c, modes, types, p, m)},
       b \in {blw(pCM(in.cms_energy, in.mass_stable, m), in.L)}} : TRUE

\* the loops starting from an envelope factor of 1 in every call
RECURSIVE rejection_loop_reset(_, _, _, _, _, _, _, _, _)
rejection_loop_reset(pt, c, modes, types, p, in, factor, draws, over) ==
  IF draws = <<>>
  THEN [done |-> FALSE, factor |-> factor, over |-> over, mass |-> 0,
        val |-> Zero, max |-> Zero]
  ELSE LET Kept(f) == IF over = <<>> THEN One ELSE f
           Judge(mass_res, val, max, u) ==
             IF RLess(val, uniform(max, u))
             THEN rejection_loop_reset(pt, c, modes, types, p, in, Kept(factor), Tail(draws), over)
                ELSE IF RLess(max, val)
                THEN rejection_loop_reset(pt, c, modes, types, p, in,
                     RMul(Kept(factor), RDiv(val, max)), Tail(draws),
                     Append(over, [mass |-> mass_res, val |-> val, max |-> max]))
             ELSE [done |-> Tail(draws) = <<>>, factor |-> Kept(factor), over |-> over,
                   mass |-> mass_res, val |-> val, max |-> max]
       IN  CHOOSE r \in
             {Judge(Head(draws).m, val, max, Head(draws).u) :
                val \in {candidate_value(pt, c, modes, types, p, in, Head(draws).m)},
                max \in {RMul(in.blw_max, RMul(in.sf_ratio_max, Kept(factor)))}} : TRUE

\* the loops returning the first accepted candidate, above the maximum or not
RECURSIVE rejection_loop_unchecked(_, _, _, _, _, _, _, _, _)
rejection_loop_unchecked(pt, c, modes, types, p, in, factor, draws, over) ==
  IF draws = <<>>
  THEN [done |-> FALSE, factor |-> factor, over |-> over, mass |-> 0,
        val |-> Zero, max |-> Zero]
  ELSE LET Judge(mass_res, val, max, u) ==
             IF RLess(val, uniform(max, u))
             THEN rejection_loop_unchecked(pt, c, modes, types, p, in, factor, Tail(draws), over)
             ELSE [done |-> Tail(draws) = <<>>, factor |-> factor, over |-> over,
                   mass |-> mass_res, val |-> val, max |-> max]
       IN  CHOOSE r \in
             {Judge(Head(draws).m, val, max, Head(draws).u) :
                val \in {candidate_value(pt, c, modes, types, p, in, Head(draws).m)},
                max \in {RMul(in.blw_max, RMul(in.sf_ratio_max, factor))}} : TRUE

\* the loops of sample_resonance_mass: in holds the values computed before
\* the loops, over the candidates that were found above the maximum; the
\* call is done when the last draw is the one that is returned
RECURSIVE rejection_loop(_, _, _, _, _, _, _, _, _)
rejection_loop(pt, c, modes, types, p, in, factor, draws, over) ==
  IF draws = <<>>
  THEN [done |-> FALSE, factor |-> factor, over |-> over, mass |-> 0,
        val |-> Zero, max |-> Zero]
  ELSE LET Judge(mass_res, val, max, u) ==
             IF RLess(val, uniform(max, u))
             THEN rejection_loop(pt, c, modes, types, p, in, factor, Tail(draws), over)
                ELSE IF RLess(max, val)
                THEN rejection_loop(pt, c, modes, types, p, in,
                     RMul(factor, RDiv(val, max)), Tail(draws),
                     Append(over, [mass |-> mass_res, val |-> val, max |-> max]))
             ELSE [done |-> Tail(draws) = <<>>, factor |-> factor, over |-> over,
                   mass |-> mass_res, val |-> val, max |-> max]
       IN  CHOOSE r \in
             {Judge(Head(draws).m, val, max, Head(draws).u) :
                val \in {candidate_value(pt, c, modes, types, p, in, Head(draws).m)},
                max \in {RMul(in.blw_max, RMul(in.sf_ratio_max, factor))}} : TRUE

\* ParticleType::sample_resonance_mass(mass_stable, cms_energy, L) up to
\* its loops: the bounds of the mass and of the value; c holds the caches
resonance_mass_bounds(pt, c, modes, types, p, mass_stable, cms_energy, L) ==
  CHOOSE bounds \in
    {CHOOSE ratio \in
       {[c |-> sf.c,
         in |-> [mass_stable |-> mass_stable, cms_energy |-> cms_energy, L |-> L,
                 min_mass |-> mn.value,
                 max_mass |-> nextafter(cms_energy - mass_stable),
                 blw_max |-> b,
                 sf_ratio_max |-> max_of_one(RDiv(sf.value, simple))]] :
          sf \in {spectral_function(pt, mn.c, modes, types, p,
                                    nextafter(cms_energy - mass_stable))},
          simple \in {spectral_function_simple(pt, 
                        p, nextafter(cms_energy - mass_stable))},
          b \in {blw(pCM(cms_energy, mass_stable, mn.value), L)}} : TRUE :
       mn \in {min_mass_spectral(pt, c, modes, types, p)}} : TRUE

\* val of sample_resonance_masses for the candidate masses m1 and m2, with
\* the caches it leaves
candidate_value_pair(pt, c, modes, types, in, m1, m2) ==
  CHOOSE cv \in
    {CHOOSE second \in
       {[c |-> sf2.c, val |-> RMul(RMul(q1, RDiv(sf2.value, simple2)), b)] :
          sf2 \in {spectral_function(pt, sf1.c, modes, types, in.t2, m2)},
          simple2 \in {spectral_function_simple(pt, in.t2, m2)},
          q1 \in {RDiv(sf1.value, spectral_function_simple(pt, in.t1, m1))},
          b \in {blw(pCM(in.cms_energy, m1, m2), in.L)}} : TRUE :
       sf1 \in {spectral_function(pt, c, modes, types, in.t1, m1)}} : TRUE

\* the loops of sample_resonance_masses; a draw holds the two masses and
\* the fraction, and the caches are handed on from candidate to candidate
RECURSIVE rejection_loop_pair(_, _, _, _, _, _, _, _)
rejection_loop_pair(pt, c, modes, types, in, factor, draws, over) ==
  IF draws = <<>>
  THEN [c |-> c, done |-> FALSE, factor |-> factor, over |-> over,
        mass |-> <<0, 0>>, val |-> Zero, max |-> Zero]
  ELSE LET Judge(cn, d, val, max) ==
             IF RLess(val, uniform(max, d.u))
             THEN rejection_loop_pair(pt, cn, modes, types, in, factor, Tail(draws), over)
             ELSE IF RLess(max, val)
             THEN rejection_loop_pair(pt, cn, modes, types, in,
                                      RMul(factor, RDiv(val, max)), Tail(draws),
                                      Append(over, [mass |-> <<d.m1, d.m2>>,
                                                    val |-> val, max |-> max]))
             ELSE [c |-> cn, done |-> Tail(draws) = <<>>, factor |-> factor,
                   over |-> over, mass |-> <<d.m1, d.m2>>, val |-> val, max |-> max]
       IN  CHOOSE r \in
             {Judge(cv.c, Head(draws), cv.val, max) :
                cv \in {candidate_value_pair(pt, c, modes, types, in, Head(draws).m1,
                                             Head(draws).m2)},
                max \in {RMul(in.blw_max, factor)}} : TRUE

\* ParticleType::sample_resonance_masses(t2, cms_energy, L) of t1 up to its
\* loops
resonance_masses_bounds(pt, c, modes, types, t1, t2, cms_energy, L) ==
  CHOOSE bounds \in
    {CHOOSE this \in
       {[c |-> mn1.c, t1 |-> t1, t2 |-> t2, cms_energy |-> cms_energy, L |-> L,
         min_mass_1 |-> mn1.value, min_mass_2 |-> mn2.value,
         max_mass_1 |-> nextafter(cms_energy - mn2.value),
         max_mass_2 |-> nextafter(cms_energy - mn1.value),
         blw_max |-> blw(pCM(cms_energy, mn1.value, mn2.value), L)] :
          mn1 \in {min_mass_spectral(pt, mn2.c, modes, types, t1)}} : TRUE :
       mn2 \in {min_mass_spectral(pt, c, modes, types, t2)}} : TRUE

(***************************************************************************)
(* The run-time functions called in any order on the loaded tables.        *)
(***************************************************************************)
\* number of run-time calls in one run
MaxRuntimeCalls == 3

\* the species and the masses of the calls
RuntimeSpecies == {113, 333}

StableSpecies == {111}

Masses == {200 * MeV, 277 * MeV, 989 * MeV, 991 * MeV}

\* the state after a successful load_decaymodes
AfterLoad(st) ==
  /\ status = "ok"
  /\ error = NoError
  /\ ndebug = TRUE
  /\ all_decay_types = st.types
  /\ all_decay_modes = st.modes
  /\ isotype_mother = Null
  /\ decay_modes_to_add = <<>>
  /\ total_large_renormalized = 0
  /\ linenumber = 0
  /\ physical = 0
  /\ line = 0
  /\ nrecords = 0
  /\ ncomments = 0
  /\ min_mass_kinematic_ = st.pass.cache
  /\ finalized = {}
  /\ last = NoRecord
  /\ RuntimeIdle

InitWidth == \E st \in LoadedTables : AfterLoad(st)

\* the caches of all species
Caches ==
  [kin |-> min_mass_kinematic_, spec |-> min_mass_spectral_, norm |-> norm_factor_]

\* a further call is made
Calling == Len(history) < MaxRuntimeCalls

\* a call ends: its result is handed back and the caches are as it left them
Return(call, c) ==
  /\ returned' = call
  /\ history' = Append(history, call)
  /\ min_mass_kinematic_' = c.kin
  /\ min_mass_spectral_' = c.spec
  /\ norm_factor_' = c.norm
  /\ UNCHANGED <<status, error, ndebug, all_decay_types, all_decay_modes,
                 isotype_mother, decay_modes_to_add, total_large_renormalized,
                 linenumber, physical, line, nrecords, ncomments, finalized, last,
                 requests, max_factor1_, max_factor2_, pc, frame,
                 map_possible_resonances_of>>

Call(op, p, m, value) ==
  [op |-> op, p |-> p, m |-> m, value |-> value,
   lazy |-> RLess(norm_factor_[p], Zero)]

TotalWidth(p, m) ==
  /\ Calling
  /\ \E r \in {total_width(ParticleTypes, min_mass_kinematic_, all_decay_modes, all_decay_types, p, m)} :
       Return(Call("total_width", p, m, r.value), [Caches EXCEPT !.kin = r.cache])

SpectralFunction(p, m) ==
  /\ Calling
  /\ \E r \in {spectral_function(ParticleTypes, Caches, all_decay_modes, all_decay_types, p, m)} :
       Return(Call("spectral_function", p, m, r.value), r.c)

MinMassKinematic(p) ==
  /\ Calling
  /\ \E r \in {min_mass_kinematic(ParticleTypes, min_mass_kinematic_, all_decay_modes, all_decay_types,
                                  TRUE, p)} :
       Return(Call("min_mass_kinematic", p, 0, r.value), [Caches EXCEPT !.kin = r.cache])

MinMassSpectral(p) ==
  /\ Calling
  /\ \E r \in {min_mass_spectral(ParticleTypes, Caches, all_decay_modes, all_decay_types, p)} :
       /\ r.value >= 0
       /\ Return(Call("min_mass_spectral", p, 0, r.value), r.c)

\* a sampling call ends: besides the caches it leaves the envelope factors
Sampled(call, c, factor1, factor2) ==
  /\ returned' = call
  /\ history' = Append(history, [op |-> call.op, p |-> call.p])
  /\ min_mass_kinematic_' = c.kin
  /\ min_mass_spectral_' = c.spec
  /\ norm_factor_' = c.norm
  /\ max_factor1_' = factor1
  /\ max_factor2_' = factor2
  /\ UNCHANGED <<status, error, ndebug, all_decay_types, all_decay_modes,
                 isotype_mother, decay_modes_to_add, total_large_renormalized,
                 linenumber, physical, line, nrecords, ncomments, finalized, last,
                 requests, pc, frame, map_possible_resonances_of>>

SampleResonanceMass(p, mass_stable, cms_energy, L) ==
  /\ Calling
  /\ \E b \in {resonance_mass_bounds(ParticleTypes, Caches, all_decay_modes, all_decay_types, p,
                                     mass_stable, cms_energy, L)} :
       /\ b.in.min_mass >= 0
       /\ \E draws \in Draws([m : cauchy(b.in.min_mass, b.in.max_mass),
                              u : Fractions]) :
            \E r \in {rejection_loop(ParticleTypes, b.c, all_decay_modes, all_decay_types, p, b.in,
                                     max_factor1_[p], draws, <<>>)} :
              /\ r.done
              /\ Sampled([op |-> "sample_resonance_mass", p |-> p,
                          mass_stable |-> mass_stable, cms_energy |-> cms_energy,
                          L |-> L, min_mass |-> b.in.min_mass, mass |-> r.mass,
                          val |-> r.val, max |-> r.max,
                          before |-> max_factor1_[p], after |-> r.factor,
                          over |-> r.over],
                         b.c, [max_factor1_ EXCEPT ![p] = r.factor], max_factor2_)

SampleResonanceMasses(t1, t2, cms_energy, L) ==
  /\ Calling
  /\ \E in \in {resonance_masses_bounds(ParticleTypes, Caches, all_decay_modes, all_decay_types,
                                        t1, t2, cms_energy, L)} :
       /\ in.min_mass_1 >= 0
       /\ in.min_mass_2 >= 0
       /\ \E draws \in Draws([m1 : cauchy(in.min_mass_1, in.max_mass_1),
                              m2 : cauchy(in.min_mass_2, in.max_mass_2),
                              u : Fractions]) :
            \E r \in {rejection_loop_pair(ParticleTypes, in.c, all_decay_modes, all_decay_types, in,
                                          max_factor2_[t1], draws, <<>>)} :
              /\ r.done
              /\ Sampled([op |-> "sample_resonance_masses", p |-> t1, t2 |-> t2,
                          cms_energy |-> cms_energy, L |-> L,
                          min_mass_1 |-> in.min_mass_1, min_mass_2 |-> in.min_mass_2,
                          mass |-> r.mass, val |-> r.val, max |-> r.max,
                          before |-> max_factor2_[t1], after |-> r.factor,
                          over |-> r.over],
                         r.c, max_factor1_, [max_factor2_ EXCEPT ![t1] = r.factor])

\* the stable partner and the energy of the sampling calls between the others
PionMass == InUnits(138)

Energy == InUnits(1300)

NextWidth ==
  \/ \E p \in RuntimeSpecies \cup StableSpecies, m \in Masses : TotalWidth(p, m)
  \/ \E p \in RuntimeSpecies, m \in Masses : SpectralFunction(p, m)
  \/ \E p \in RuntimeSpecies : MinMassKinematic(p)
  \/ \E p \in RuntimeSpecies : MinMassSpectral(p)
  \/ \E p \in RuntimeSpecies : SampleResonanceMass(p, PionMass, Energy, 0)

SpecWidth == InitWidth /\ [][NextWidth]_vars

\* the positions in history of the calls of one operation
CallsOf(op) == {i \in 1..Len(history) : history[i].op = op}

\* partial_width(m, branch) of the k-th branch of p on the installed tables
PartialWidthOf(p, m, k) ==
  partial_width(ParticleTypes, min_mass_kinematic_, all_decay_modes, all_decay_types, p, m, k).value

\* the partial widths of the first k branches of p, added up
RECURSIVE SumOfPartialWidths(_, _, _)
SumOfPartialWidths(p, m, k) ==
  IF k = 0 THEN Zero
  ELSE RAdd(SumOfPartialWidths(p, m, k - 1), PartialWidthOf(p, m, k))

\* what a result h of total_width has to be
TotalWidthContract(h) ==
  LET Floored(s) == h.value = IF RLess(s, width_cutoff) THEN Zero ELSE s
  IN  /\ is_stable(h.p) => h.value = Zero
      /\ ~is_stable(h.p) =>
           Floored(SumOfPartialWidths(h.p, h.m, Len(all_decay_modes[h.p])))
      /\ \A k \in ModesOf(h.p) :
           h.m < InUnits(ThresholdOf(h.p, k)) => PartialWidthOf(h.p, h.m, k) = Zero
      /\ ~(RLess(Zero, h.value) /\ RLess(h.value, width_cutoff))

\* C14: total_width(m) is 0 for a stable species and otherwise the sum of
\* partial_width(m, branch) over all branches, a branch contributing 0 below
\* its threshold, with a sum below width_cutoff returned as exactly 0; no
\* result lies strictly between 0 and width_cutoff.
C14_TotalWidthFloored ==
  \A i \in CallsOf("total_width") : TotalWidthContract(history[i])

\* a total_width call whose sum of partial widths is positive and below the cutoff
FlooredCall(h) ==
  LET Small(s) == RLess(Zero, s) /\ RLess(s, width_cutoff)
  IN  /\ ~is_stable(h.p)
      /\ Small(SumOfPartialWidths(h.p, h.m, Len(all_decay_modes[h.p])))
      /\ h.value = Zero

C14_Witness == \E i \in CallsOf("total_width") : FlooredCall(history[i])

\* C15: every result of spectral_function(m) is >= 0, and it is 0 for every
\* m strictly below min_mass_spectral() of the species, also for the masses
\* between min_mass_kinematic() and a min_mass_spectral() found by bisection.
C15_SpectralFunctionZeroBelowMinimum ==
  \A i \in CallsOf("spectral_function") :
    /\ ~RLess(history[i].value, Zero)
    /\ \A j \in CallsOf("min_mass_spectral") :
         (history[j].p = history[i].p /\ history[i].m < history[j].value)
           => history[i].value = Zero

\* a positive spectral function of a species with decay modes at a mass below
\* its min_mass_spectral()
PositiveBelowMinimum ==
  \E i \in CallsOf("spectral_function"), j \in CallsOf("min_mass_spectral") :
    /\ history[j].p = history[i].p
    /\ all_decay_modes[history[i].p] # <<>>
    /\ min_mass_kinematic_[history[i].p] >= 0
    /\ InUnits(min_mass_kinematic_[history[i].p]) < history[i].m
    /\ history[i].m < history[j].value
    /\ RLess(Zero, history[i].value)

\* the same call, of total_width or of spectral_function, at two positions of history
SameCall(i, j) ==
  /\ history[i].op \in {"total_width", "spectral_function"}
  /\ history[i].op = history[j].op
  /\ history[i].p = history[j].p
  /\ history[i].m = history[j].m

\* C16: on the same tables, two calls of total_width(m) with the same m
\* return identical results, and so do two calls of spectral_function(m),
\* also when the first is the call that computes the normalization constant
\* and sampling or min-mass calls happen in between.
C16_SameMassSameResult ==
  \A i, j \in 1..Len(history) : SameCall(i, j) => history[i].value = history[j].value

\* a spectral_function call that computed the normalization, a sampling call
\* of the same species, which asks for its minimum mass, and the first call
\* again
C16_Witness ==
  /\ Len(history) = 3
  /\ history[1].op = "spectral_function" /\ history[1].lazy
  /\ history[2].op = "sample_resonance_mass"
  /\ history[2].p = history[1].p
  /\ SameCall(1, 3)
  /\ ~history[3].lazy
  /\ RLess(Zero, history[3].value)

(***************************************************************************)
(* The sampling functions called in any order, on tables in which the      *)
(* sampled species have decay modes.                                       *)
(***************************************************************************)
\* the energies of the calls: the sum of the minimum mass of the phi and the
\* pion mass, and energies above and below the sums of two minimum masses
Energies == {InUnits(1129) + 500, Energy, InUnits(2050)}

\* the second resonance of the paired calls
Partners == {333}

InitSample ==
  \E st \in LoadedTables : st.modes[333] # <<>> /\ AfterLoad(st)

\* sampling calls in one run
MaxSamples == 2

\* sample_resonance_mass of any species at any energy
SampleOne ==
  /\ Len(history) < MaxSamples
  /\ \E p \in RuntimeSpecies, cms_energy \in Energies, L \in {0, 1} :
       SampleResonanceMass(p, PionMass, cms_energy, L)

\* sample_resonance_masses of any species with a partner at any energy
SamplePair ==
  /\ Len(history) < MaxSamples
  /\ \E t1 \in RuntimeSpecies, t2 \in Partners, cms_energy \in Energies,
        L \in {0, 1} :
       SampleResonanceMasses(t1, t2, cms_energy, L)

NextSample == SampleOne \/ SamplePair

SpecSample == InitSample /\ [][NextSample]_vars

SamplingOps == {"sample_resonance_mass", "sample_resonance_masses"}

\* the envelope factor f after the first k of the values found above the maximum
RECURSIVE Enlarged(_, _, _)
Enlarged(f, over, k) ==
  IF k = 0 THEN f
  ELSE RMul(Enlarged(f, over, k - 1), RDiv(over[k].val, over[k].max))

\* the maximum in force after the k-th value found above the maximum
MaxAfter(call, k) ==
  IF k < Len(call.over) THEN call.over[k + 1].max ELSE call.max

\* what a sampling call has done with the values it found above the maximum
OvershootsDiscarded(call) ==
  /\ \A k \in 1..Len(call.over) :
       /\ RLess(call.over[k].max, call.over[k].val)
       /\ MaxAfter(call, k)
            = RMul(call.over[k].max, RDiv(call.over[k].val, call.over[k].max))
  /\ call.after = Enlarged(call.before, call.over, Len(call.over))
  /\ RLess(call.val, call.max) \/ call.val = call.max

\* C17: sample_resonance_mass and sample_resonance_masses never return a
\* candidate whose value val is above the maximum in force: on a val > max
\* the envelope factor is multiplied by val/max, the candidate is discarded
\* and the loop goes on with the enlarged maximum; the returned candidate has
\* val <= max.
C17_ReturnedBelowMaximum ==
  returned.op \in SamplingOps => OvershootsDiscarded(returned)

\* a call that found a value above the maximum and returned a later candidate
C17_Witness ==
  /\ returned.op = "sample_resonance_mass"
  /\ returned.over # <<>>
  /\ returned.mass # returned.over[1].mass
  /\ RLess(returned.over[1].max, returned.over[1].val)

\* the paired call enlarges its envelope as well
PairEnlarged ==
  returned.op = "sample_resonance_masses" /\ returned.over # <<>>

\* every ratio by which a call enlarged the envelope is above 1
RatiosAboveOne(call) ==
  \A k \in 1..Len(call.over) : RLess(One, RDiv(call.over[k].val, call.over[k].max))

\* a step of the envelope factors old to new of which the call changes the one at p
FactorStep(call, old, new) ==
  /\ call.before = old[call.p]
  /\ RatiosAboveOne(call)
  /\ new = [old EXCEPT ![call.p] = Enlarged(old[call.p], call.over, Len(call.over))]

\* C18: the envelope factor is never reset and never decreases: a call of
\* sample_resonance_mass starts with the max_factor1_ the previous call left,
\* and every update multiplies it by a ratio val/max > 1; likewise
\* max_factor2_ for sample_resonance_masses.
C18_EnvelopeFactorKept ==
  [][/\ \A p \in AllPdg : /\ ~RLess(max_factor1_'[p], max_factor1_[p])
                          /\ ~RLess(max_factor2_'[p], max_factor2_[p])
     /\ returned'.op = "sample_resonance_mass" =>
          /\ FactorStep(returned', max_factor1_, max_factor1_')
          /\ max_factor2_' = max_factor2_
     /\ returned'.op = "sample_resonance_masses" =>
          /\ FactorStep(returned', max_factor2_, max_factor2_')
          /\ max_factor1_' = max_factor1_]_vars

\* a call that starts with the envelope factor an earlier call has enlarged
C18_Witness ==
  /\ returned.op = "sample_resonance_mass"
  /\ RLess(One, returned.before)
  /\ max_factor1_[returned.p] = returned.after
  /\ Len(history) = 2

\* x lies between a and b
Between(x, a, b) == (a <= x /\ x <= b) \/ (b <= x /\ x <= a)

\* C19: for min_mass_spectral() <= cms_energy - mass_stable the mass returned
\* by sample_resonance_mass lies in [min_mass_spectral(), cms_energy -
\* mass_stable]; each mass returned by sample_resonance_masses lies between
\* the min_mass_spectral() of its species and cms_energy minus that of the
\* other species.
C19_MassWithinBounds ==
  /\ (/\ returned.op = "sample_resonance_mass"
      /\ returned.min_mass <= returned.cms_energy - returned.mass_stable)
       => /\ returned.min_mass <= returned.mass
          /\ returned.mass <= returned.cms_energy - returned.mass_stable
  /\ returned.op = "sample_resonance_masses"
       => /\ Between(returned.mass[1], returned.min_mass_1,
                     returned.cms_energy - returned.min_mass_2)
          /\ Between(returned.mass[2], returned.min_mass_2,
                     returned.cms_energy - returned.min_mass_1)

\* sample_resonance_mass returns a mass below min_mass_spectral()
SingleBelowMinimum ==
  /\ returned.op = "sample_resonance_mass"
  /\ returned.min_mass <= returned.cms_energy - returned.mass_stable
  /\ returned.mass < returned.min_mass

\* sample_resonance_masses returns a mass outside its bounds
PairOutside ==
  /\ returned.op = "sample_resonance_masses"
  /\ ~Between(returned.mass[1], returned.min_mass_1,
              returned.cms_energy - returned.min_mass_2)

(***************************************************************************)
(* Two workers calling min_mass_kinematic() and min_mass_spectral() at the *)
(* same time: a step is one test, one assignment or one return of the      *)
(* function; pc[w] is the position of worker w and frame[w] its call.      *)
(***************************************************************************)
NWorkers == 2

Workers == 1..Len(pc)

RaceOps == {"min_mass_kinematic", "min_mass_spectral"}

InitRace == \E st \in LoadedTables : AfterLoad(st)

\* what no step of the two functions writes
RaceKeeps ==
  UNCHANGED <<status, error, ndebug, all_decay_types, all_decay_modes,
              isotype_mother, decay_modes_to_add, total_large_renormalized,
              linenumber, physical, line, nrecords, ncomments, finalized, last,
              requests, max_factor1_, max_factor2_, returned, history,
              map_possible_resonances_of>>

\* worker w goes on at position at
Goto(w, at) == pc' = [pc EXCEPT ![w] = at]

\* a worker calls op of p
Enter(op, p) ==
  /\ Len(pc) < NWorkers
  /\ pc' = Append(pc, op)
  /\ frame' = Append(frame, [op |-> op, p |-> p, k |-> 1, value |-> -1])
  /\ UNCHANGED <<min_mass_kinematic_, min_mass_spectral_, norm_factor_>>
  /\ RaceKeeps

\* if (unlikely(min_mass_kinematic_ < 0.))
KinematicTest(w) ==
  /\ pc[w] = "min_mass_kinematic"
  /\ Goto(w, IF min_mass_kinematic_[frame[w].p] < 0 THEN "kinematic_mass"
             ELSE "kinematic_return")
  /\ UNCHANGED <<frame, min_mass_kinematic_, min_mass_spectral_, norm_factor_>>
  /\ RaceKeeps

\* min_mass_kinematic_ = mass_
KinematicMass(w) ==
  /\ pc[w] = "kinematic_mass"
  /\ min_mass_kinematic_' = [min_mass_kinematic_ EXCEPT ![frame[w].p] = mass(frame[w].p)]
  /\ Goto(w, IF is_stable(frame[w].p) THEN "kinematic_return" ELSE "kinematic_mode")
  /\ UNCHANGED <<frame, min_mass_spectral_, norm_factor_>>
  /\ RaceKeeps

\* min_mass_kinematic_ = std::min(min_mass_kinematic_, mode->threshold()) for
\* the next mode, or the end of the loop
KinematicMode(w) ==
  /\ pc[w] = "kinematic_mode"
  /\ IF frame[w].k > Len(all_decay_modes[frame[w].p])
     THEN /\ Goto(w, "kinematic_return")
          /\ UNCHANGED <<frame, min_mass_kinematic_>>
     ELSE /\ \E t \in {threshold(ParticleTypes, min_mass_kinematic_, all_decay_modes,
                                 all_decay_types, TRUE,
                                 DaughtersOf(frame[w].p, frame[w].k), 1)} :
               min_mass_kinematic_' = [t.cache EXCEPT ![frame[w].p] = Min(@, t.value)]
          /\ frame' = [frame EXCEPT ![w].k = @ + 1]
          /\ UNCHANGED pc
  /\ UNCHANGED <<min_mass_spectral_, norm_factor_>>
  /\ RaceKeeps

\* return min_mass_kinematic_
KinematicReturn(w) ==
  /\ pc[w] = "kinematic_return"
  /\ frame' = [frame EXCEPT ![w].value = min_mass_kinematic_[frame[w].p]]
  /\ Goto(w, "done")
  /\ UNCHANGED <<min_mass_kinematic_, min_mass_spectral_, norm_factor_>>
  /\ RaceKeeps

\* if (unlikely(min_mass_spectral_ < 0.))
SpectralTest(w) ==
  /\ pc[w] = "min_mass_spectral"
  /\ Goto(w, IF min_mass_spectral_[frame[w].p] < 0 THEN "spectral_kinematic"
             ELSE "spectral_return")
  /\ UNCHANGED <<frame, min_mass_kinematic_, min_mass_spectral_, norm_factor_>>
  /\ RaceKeeps

\* min_mass_spectral_ = min_mass_kinematic()
SpectralKinematic(w) ==
  /\ pc[w] = "spectral_kinematic"
  /\ \E mk \in {min_mass_kinematic(ParticleTypes, min_mass_kinematic_, all_decay_modes,
                                   all_decay_types, TRUE, frame[w].p)} :
       /\ min_mass_kinematic_' = mk.cache
       /\ min_mass_spectral_' = [min_mass_spectral_ EXCEPT ![frame[w].p] = InUnits(mk.value)]
  /\ Goto(w, "spectral_search")
  /\ UNCHANGED <<frame, norm_factor_>>
  /\ RaceKeeps

\* the search for the right bound, the bisection and min_mass_spectral_ =
\* right_bound_bis, where the spectral function at the kinematic minimum is
\* negligible
SpectralSearch(w) ==
  /\ pc[w] = "spectral_search"
  /\ \E r \in {min_mass_spectral(ParticleTypes, [kin |-> min_mass_kinematic_,
                                  spec |-> [min_mass_spectral_ EXCEPT ![frame[w].p] = -1],
                                  norm |-> norm_factor_],
                                 all_decay_modes, all_decay_types, frame[w].p)} :
       /\ r.value >= 0
       /\ min_mass_kinematic_' = r.c.kin
       /\ min_mass_spectral_' = [min_mass_spectral_ EXCEPT ![frame[w].p] = r.value]
       /\ norm_factor_' = r.c.norm
  /\ Goto(w, "spectral_return")
  /\ UNCHANGED frame
  /\ RaceKeeps

\* return min_mass_spectral_
SpectralReturn(w) ==
  /\ pc[w] = "spectral_return"
  /\ frame' = [frame EXCEPT ![w].value = min_mass_spectral_[frame[w].p]]
  /\ Goto(w, "done")
  /\ UNCHANGED <<min_mass_kinematic_, min_mass_spectral_, norm_factor_>>
  /\ RaceKeeps

NextRace ==
  \/ \E op \in RaceOps, p \in RuntimeSpecies : Enter(op, p)
  \/ \E w \in Workers : KinematicTest(w)
  \/ \E w \in Workers : KinematicMass(w)
  \/ \E w \in Workers : KinematicMode(w)
  \/ \E w \in Workers : KinematicReturn(w)
  \/ \E w \in Workers : SpectralTest(w)
  \/ \E w \in Workers : SpectralKinematic(w)
  \/ \E w \in Workers : SpectralSearch(w)
  \/ \E w \in Workers : SpectralReturn(w)

SpecRace == InitRace /\ [][NextRace]_vars

\* what the call of worker w returns when no other call runs: the result on
\* the caches of the other species
SingleThreaded(call) ==
  IF call.op = "min_mass_kinematic"
  THEN min_mass_kinematic(ParticleTypes, [min_mass_kinematic_ EXCEPT ![call.p] = -1],
                          all_decay_modes, all_decay_types, TRUE, call.p).value
  ELSE min_mass_spectral(ParticleTypes, [kin |-> [min_mass_kinematic_ EXCEPT ![call.p] = -1],
                          spec |-> [min_mass_spectral_ EXCEPT ![call.p] = -1],
                          norm |-> norm_factor_],
                         all_decay_modes, all_decay_types, call.p).value

\* C20: when two workers call min_mass_kinematic() or min_mass_spectral() of
\* the same species at the same time with its cache unset, every value
\* returned to either of them, under every interleaving of their reads and
\* writes of the cache, is the value a single-threaded call returns.
C20_RaceIsSafe ==
  \A w \in Workers : pc[w] = "done" => frame[w].value = SingleThreaded(frame[w])

\* two workers in min_mass_kinematic() of the same species, of which the one
\* that found the cache set by the other returns the pole mass
PoleMassReturned ==
  /\ Len(pc) = NWorkers
  /\ frame[1].op = "min_mass_kinematic" /\ frame[2].op = "min_mass_kinematic"
  /\ frame[1].p = frame[2].p
  /\ pc[2] = "done"
  /\ pc[1] = "kinematic_mode"
  /\ frame[2].value = mass(frame[2].p)
  /\ frame[2].value # SingleThreaded(frame[2])

(***************************************************************************)
(* Two workers calling sample_resonance_mass at the same time.  The values *)
(* computed before the loops are computed in one step; after that a step   *)
(* is one pass of the head of the outer loop, one candidate of the inner   *)
(* loop, or the read or the write of `max_factor1_ *= val / max`, which is *)
(* a load, a multiplication and a store of a plain double.                 *)
(***************************************************************************)
\* the energies of the calls of the two workers
RaceEnergies == {Energy, InUnits(2050)}

\* the masses random::cauchy returns in these calls: the bounds and a mass
\* between them
RaceCandidates(lo, hi) == cauchy(lo, hi) \cup {m \in {lo + 5 * MeV} : m < hi}

InitEnvelope == InitSample

\* what no step of sample_resonance_mass writes
EnvelopeKeeps ==
  UNCHANGED <<status, error, ndebug, all_decay_types, all_decay_modes,
              isotype_mother, decay_modes_to_add, total_large_renormalized,
              linenumber, physical, line, nrecords, ncomments, finalized, last,
              requests, max_factor2_, returned, history,
              map_possible_resonances_of>>

\* the value stored by an update that shrinks the envelope instead
rescaled_inverse(factor, val, max) == RMul(factor, RDiv(max, val))

\* max_factor1_ * (val / max), the value `max_factor1_ *= val / max` stores
\* for the value of max_factor1_ it has read
rescaled(factor, val, max) == RMul(factor, RDiv(val, max))

\* a worker calls sample_resonance_mass of p and computes max_mass, min_mass,
\* blw_max and sf_ratio_max
SampleEnter(p, mass_stable, cms_energy, L) ==
  /\ Len(pc) < NWorkers
  /\ \E b \in {resonance_mass_bounds(ParticleTypes, Caches, all_decay_modes,
                                     all_decay_types, p, mass_stable, cms_energy, L)} :
       /\ b.in.min_mass >= 0
       /\ b.in.min_mass <= b.in.max_mass
       /\ min_mass_kinematic_' = b.c.kin
       /\ min_mass_spectral_' = b.c.spec
       /\ norm_factor_' = b.c.norm
       /\ pc' = Append(pc, "outer")
       /\ frame' = Append(frame, [op |-> "sample_resonance_mass", p |-> p, in |-> b.in,
                                  max |-> Zero, mass |-> 0, val |-> Zero,
                                  loaded |-> Zero, stored |-> Zero, draws |-> 0])
  /\ UNCHANGED max_factor1_
  /\ EnvelopeKeeps

\* const double q_max = sf_ratio_max * this->max_factor1_;
\* const double max = blw_max * q_max;
OuterLoop(w) ==
  /\ pc[w] = "outer"
  /\ frame' = [frame EXCEPT ![w].max =
                 RMul(frame[w].in.blw_max,
                      RMul(frame[w].in.sf_ratio_max, max_factor1_[frame[w].p]))]
  /\ Goto(w, "inner")
  /\ UNCHANGED <<min_mass_kinematic_, min_mass_spectral_, norm_factor_, max_factor1_>>
  /\ EnvelopeKeeps

\* one candidate of the inner loop, the test that ends the loop and the test
\* of val against max
InnerLoop(w, m, u) ==
  /\ pc[w] = "inner"
  /\ frame[w].draws < MaxDraws
  /\ \E val \in {candidate_value(ParticleTypes, Caches, all_decay_modes, all_decay_types,
                                 frame[w].p, frame[w].in, m)} :
       /\ frame' = [frame EXCEPT ![w].mass = m, ![w].val = val, ![w].draws = @ + 1]
       /\ Goto(w, IF RLess(val, uniform(frame[w].max, u)) THEN "inner"
                  ELSE IF RLess(frame[w].max, val) THEN "load"
                  ELSE "done")
  /\ UNCHANGED <<min_mass_kinematic_, min_mass_spectral_, norm_factor_, max_factor1_>>
  /\ EnvelopeKeeps

\* the read of this->max_factor1_ *= val / max
LoadFactor(w) ==
  /\ pc[w] = "load"
  /\ frame' = [frame EXCEPT ![w].loaded = max_factor1_[frame[w].p]]
  /\ Goto(w, "store")
  /\ UNCHANGED <<min_mass_kinematic_, min_mass_spectral_, norm_factor_, max_factor1_>>
  /\ EnvelopeKeeps

\* the write of this->max_factor1_ *= val / max
StoreFactor(w) ==
  /\ pc[w] = "store"
  /\ \E f \in {rescaled(frame[w].loaded, frame[w].val, frame[w].max)} :
       /\ max_factor1_' = [max_factor1_ EXCEPT ![frame[w].p] = f]
       /\ frame' = [frame EXCEPT ![w].stored = f]
  /\ Goto(w, "outer")
  /\ UNCHANGED <<min_mass_kinematic_, min_mass_spectral_, norm_factor_>>
  /\ EnvelopeKeeps

NextEnvelope ==
  \/ \E p \in RuntimeSpecies, cms_energy \in RaceEnergies :
       SampleEnter(p, PionMass, cms_energy, 0)
  \/ \E w \in Workers : OuterLoop(w)
  \/ \E w \in Workers :
       \E m \in RaceCandidates(frame[w].in.min_mass, frame[w].in.max_mass),
          u \in Fractions :
         InnerLoop(w, m, u)
  \/ \E w \in Workers : LoadFactor(w)
  \/ \E w \in Workers : StoreFactor(w)

SpecEnvelope == InitEnvelope /\ [][NextEnvelope]_vars

\* worker w has read the factor of p and not yet written it
Updating(w, p) == pc[w] = "store" /\ frame[w].p = p

\* C21: with two unsynchronized workers in sample_resonance_mass of the same
\* species a rescaling of the envelope can be lost.  The factor of a species
\* is lowered only by the write of a worker whose read came before a write
\* of the other worker (it holds a value below the factor in force), and that
\* write stores the value read times val / max > 1: above the value read, and
\* below the value the other worker has stored.
C21_RescalingLost ==
  [][\A p \in RuntimeSpecies :
       /\ max_factor1_'[p] # max_factor1_[p] =>
            \E w \in Workers :
              /\ Updating(w, p) /\ pc'[w] = "outer"
              /\ max_factor1_'[p] = frame'[w].stored
              /\ RLess(frame[w].loaded, max_factor1_'[p])
       /\ RLess(max_factor1_'[p], max_factor1_[p]) =>
            \E w \in Workers, v \in Workers :
              /\ w # v /\ Updating(w, p) /\ frame[v].p = p
              /\ RLess(frame[w].loaded, max_factor1_[p])
              /\ frame[v].stored = max_factor1_[p]]_vars

\* both workers have read the same factor and found a value above their
\* maximum, and the later write has left the factor below the value the
\* other worker had stored
C21_Witness ==
  /\ Len(pc) = NWorkers
  /\ frame[1].p = frame[2].p
  /\ frame[1].loaded = frame[2].loaded
  /\ RLess(frame[1].max, frame[1].val) /\ RLess(frame[2].max, frame[2].val)
  /\ frame[2].stored = max_factor1_[frame[2].p]
  /\ RLess(max_factor1_[frame[1].p], frame[1].stored)

(***************************************************************************)
(* All the run-time operations on the loaded tables.  The operations that  *)
(* walk a table hand back the tables as the call leaves them.              *)
(***************************************************************************)
\* DecayType::is_dilepton_decay
is_dilepton_decay(type) ==
  type.kind \in {"TwoBodyDecayDilepton", "ThreeBodyDecayDilepton"}

\* ParticleType::wanted_decaymode(t, wh)
wanted_decaymode(type, wh) ==
  CASE wh = "All" -> TRUE
    [] wh = "Hadronic" -> ~is_dilepton_decay(type)
    [] wh = "Dileptons" -> is_dilepton_decay(type)

\* the loop storing each partial width in the branch of the table itself
RECURSIVE get_partial_widths_in_place(_, _, _, _, _, _, _, _, _)
get_partial_widths_in_place(pt, cache, modes, types, p, sqrt_s, wh, i, partial) ==
  IF i > Len(modes[p]) THEN [cache |-> cache, modes |-> modes, value |-> partial]
  ELSE CHOOSE r \in
         {get_partial_widths_in_place(
            pt, pw.cache, [modes EXCEPT ![p][i].weight = pw.value], types, p, sqrt_s,
            wh, i + 1,
            IF RLess(Zero, pw.value) /\ wanted_decaymode(types[modes[p][i].type], wh)
            THEN Append(partial, [type |-> modes[p][i].type, weight |-> pw.value])
            ELSE partial) :
            pw \in {partial_width(pt, cache, modes, types, p, sqrt_s, i)}} : TRUE

\* ParticleType::get_partial_widths(p, x, wh) without potentials, from mode
\* i on: sqrt_s is p.abs(), partial the list of new branches built so far
RECURSIVE get_partial_widths(_, _, _, _, _, _, _, _, _)
get_partial_widths(pt, cache, modes, types, p, sqrt_s, wh, i, partial) ==
  IF i > Len(modes[p]) THEN [cache |-> cache, modes |-> modes, value |-> partial]
  ELSE CHOOSE r \in
         {get_partial_widths(
            pt, pw.cache, modes, types, p, sqrt_s, wh, i + 1,
            IF RLess(Zero, pw.value) /\ wanted_decaymode(types[modes[p][i].type], wh)
            THEN Append(partial, [type |-> modes[p][i].type, weight |-> pw.value])
            ELSE partial) :
            pw \in {partial_width(pt, cache, modes, types, p, sqrt_s, i)}} : TRUE

\* ParticleType::get_partial_width(m, dlist), from mode i on: the widths of
\* the modes with the daughters dlist, added up
RECURSIVE get_partial_width(_, _, _, _, _, _, _, _, _)
get_partial_width(pt, cache, modes, types, p, m, dlist, i, w) ==
  IF i > Len(modes[p]) THEN [cache |-> cache, value |-> w]
  ELSE IF ~has_particles(types[modes[p][i].type], dlist)
  THEN get_partial_width(pt, cache, modes, types, p, m, dlist, i + 1, w)
  ELSE CHOOSE r \in
         {get_partial_width(
            pt, t.cache, modes, types, p, m, dlist, i + 1,
            RAdd(w, decay_type_width(InUnits(t.value), types[modes[p][i].type].L,
                                     InUnits(pt[p].mass),
                                     RMul(Rat(pt[p].width, 1000), modes[p][i].weight),
                                     m))) :
            t \in {threshold(pt, cache, modes, types, TRUE,
                             types[modes[p][i].type].particles, 1)}} : TRUE

\* the resonances list_possible_resonances(type_a, type_b) collects, from
\* position i of ParticleType::list_all() on
RECURSIVE list_possible_resonances(_, _, _, _, _, _)
list_possible_resonances(pt, modes, types, type_a, type_b, i) ==
  IF i > Len(list_all) THEN <<>>
  ELSE LET resonance == list_all[i]
           Possible ==
             /\ pt[resonance].width # 0
             /\ resonance # type_a /\ resonance # type_b
             /\ charge(resonance) = charge(type_a) + charge(type_b)
             /\ baryon_number(resonance)
                  = baryon_number(type_a) + baryon_number(type_b)
             /\ strangeness(resonance) = strangeness(type_a) + strangeness(type_b)
             /\ \E k \in 1..Len(modes[resonance]) :
                  has_particles(types[modes[resonance][k].type], <<type_a, type_b>>)
       IN  (IF Possible THEN <<resonance>> ELSE <<>>)
             \o list_possible_resonances(pt, modes, types, type_a, type_b, i + 1)

\* number of calls in one run
MaxFrameCalls == 2

\* what a call that ends leaves alone besides the tables
FrameKeeps ==
  UNCHANGED <<status, error, ndebug, all_decay_types, isotype_mother,
              decay_modes_to_add, total_large_renormalized, linenumber, physical,
              line, nrecords, ncomments, finalized, last, requests,
              min_mass_spectral_, norm_factor_, max_factor1_, max_factor2_, pc, frame>>

PartialWidth(p, m, k) ==
  /\ Calling
  /\ \E r \in {partial_width(ParticleTypes, min_mass_kinematic_, all_decay_modes,
                             all_decay_types, p, m, k)} :
       Return(Call("partial_width", p, m, r.value), [Caches EXCEPT !.kin = r.cache])

GetPartialWidths(p, sqrt_s, wh) ==
  /\ Calling
  /\ \E r \in {get_partial_widths(ParticleTypes, min_mass_kinematic_, all_decay_modes,
                                  all_decay_types, p, sqrt_s, wh, 1, <<>>)} :
       /\ returned' = Call("get_partial_widths", p, sqrt_s, r.value)
       /\ history' = Append(history, Call("get_partial_widths", p, sqrt_s, r.value))
       /\ min_mass_kinematic_' = r.cache
       /\ all_decay_modes' = r.modes
  /\ UNCHANGED map_possible_resonances_of
  /\ FrameKeeps

GetPartialWidth(p, m, dlist) ==
  /\ Calling
  /\ \E r \in {get_partial_width(ParticleTypes, min_mass_kinematic_, all_decay_modes,
                                 all_decay_types, p, m, dlist, 1, Zero)} :
       Return(Call("get_partial_width", p, m, r.value), [Caches EXCEPT !.kin = r.cache])

\* list_possible_resonances(type_a, type_b): the list is computed when the
\* static map has no entry for the set of the two types, and read from the
\* map in every case
ListPossibleResonances(type_a, type_b) ==
  /\ Calling
  /\ \E incoming \in {{type_a, type_b}} :
       /\ map_possible_resonances_of' =
            IF \E e \in map_possible_resonances_of : e.incoming = incoming
            THEN map_possible_resonances_of
            ELSE map_possible_resonances_of
                   \cup {[incoming |-> incoming,
                          list |-> list_possible_resonances(
                                     ParticleTypes, all_decay_modes, all_decay_types,
                                     type_a, type_b, 1)]}
       /\ \E e \in map_possible_resonances_of' :
            /\ e.incoming = incoming
            /\ returned' = Call("list_possible_resonances", type_a, type_b, e.list)
            /\ history' = Append(history,
                                 Call("list_possible_resonances", type_a, type_b, e.list))
  /\ UNCHANGED <<all_decay_modes, min_mass_kinematic_>>
  /\ FrameKeeps

\* the particles and the daughter lists the calls name
IncomingTypes == {211, -211, 321, -321, 111, 22}

DaughterListsOfCalls == {<<211, -211>>, <<-211, 211>>, <<111, 22>>}

WhichDecaymodes == {"All", "Hadronic", "Dileptons"}

NextFrame ==
  /\ Len(history) < MaxFrameCalls
  /\ \/ \E p \in RuntimeSpecies, m \in Masses :
          \E k \in 1..Len(all_decay_modes[p]) : PartialWidth(p, m, k)
     \/ \E p \in RuntimeSpecies \cup StableSpecies, m \in Masses : TotalWidth(p, m)
     \/ \E p \in RuntimeSpecies \cup StableSpecies, m \in Masses,
           wh \in WhichDecaymodes : GetPartialWidths(p, m, wh)
     \/ \E p \in RuntimeSpecies, m \in Masses, dlist \in DaughterListsOfCalls :
          GetPartialWidth(p, m, dlist)
     \/ \E p \in RuntimeSpecies, m \in Masses : SpectralFunction(p, m)
     \/ \E p \in RuntimeSpecies \cup StableSpecies : MinMassKinematic(p)
     \/ \E p \in RuntimeSpecies : MinMassSpectral(p)
     \/ \E p \in RuntimeSpecies : SampleResonanceMass(p, PionMass, Energy, 0)
     \/ \E t1 \in RuntimeSpecies : SampleResonanceMasses(t1, 333, InUnits(2050), 0)
     \/ \E type_a \in IncomingTypes, type_b \in IncomingTypes :
          ListPossibleResonances(type_a, type_b)

SpecFrame == InitWidth /\ [][NextFrame]_vars

\* a step leaves the installed tables, their weights and the registry as
\* they are, and the state of load_decaymodes with them
TablesKept ==
  /\ all_decay_modes' = all_decay_modes
  /\ all_decay_types' = all_decay_types
  /\ UNCHANGED <<status, error, isotype_mother, decay_modes_to_add,
                 total_large_renormalized, linenumber>>

\* C22 as stated: after load_decaymodes has returned successfully, no
\* run-time operation changes an installed decay table, a branch weight or
\* the registry of decay types; the operations write the per-species numeric
\* caches and the envelope factors only.
C22_OnlyCachesAndFactorsWritten ==
  [][TablesKept /\ map_possible_resonances_of' = map_possible_resonances_of]_vars

\* C22: after load_decaymodes has returned successfully, no run-time
\* operation changes an installed decay table, a branch weight or the
\* registry of decay types; the operations write the per-species numeric
\* caches and the envelope factors only, and list_possible_resonances the
\* static map of its results, to which it adds the entry of a pair it has
\* not been asked before.
C22_TablesReadOnly ==
  [][/\ TablesKept
     /\ map_possible_resonances_of' # map_possible_resonances_of =>
          /\ returned'.op = "list_possible_resonances"
          /\ map_possible_resonances_of \subseteq map_possible_resonances_of'
          /\ ~\E e \in map_possible_resonances_of :
                e.incoming = {returned'.p, returned'.m}]_vars

\* get_partial_widths has handed back the widths of the branches of a
\* species, and list_possible_resonances a resonance
C22_Witness ==
  /\ Len(history) = 2
  /\ history[1].op = "get_partial_widths" /\ history[1].value # <<>>
  /\ \E k \in 1..Len(all_decay_modes[history[1].p]) :
       /\ all_decay_modes[history[1].p][k].type = history[1].value[1].type
       /\ all_decay_modes[history[1].p][k].weight # history[1].value[1].weight
  /\ returned.op = "list_possible_resonances" /\ returned.value # <<>>

(***************************************************************************)
(* The minimum masses after a load.                                        *)
(***************************************************************************)
\* mode->threshold() of the k-th branch of p, evaluated on the caches c
ThresholdAfter(c, p, k) ==
  threshold(ParticleTypes, c, all_decay_modes, all_decay_types, ndebug,
            DaughtersOf(p, k), 1).value

\* what min_mass_kinematic() of p has to return, r being what it returns and
\* the caches it leaves
MinMassKinematicContract(p, r) ==
  IF is_stable(p) THEN r.value = mass(p)
  ELSE /\ r.value < mass(p)
       /\ \E k \in ModesOf(p) : r.value = ThresholdAfter(r.cache, p, k)
       /\ \A k \in ModesOf(p) : r.value <= ThresholdAfter(r.cache, p, k)

\* min_mass_kinematic() of p called in the current state
MinMassKinematicOf(p) ==
  min_mass_kinematic(ParticleTypes, min_mass_kinematic_, all_decay_modes,
                     all_decay_types, ndebug, p)

\* C23: after a successful load_decaymodes, min_mass_kinematic() of a stable
\* species is its pole mass, and min_mass_kinematic() of an unstable species
\* is the smallest threshold over the branches of its decay table and
\* strictly below its pole mass.
C23_MinMassKinematic ==
  Loaded => \A p \in AllPdg : MinMassKinematicContract(p, MinMassKinematicOf(p))

\* the same of the species that are stable or have a decay table
MinMassKinematicOfTables ==
  Loaded => \A p \in AllPdg :
    (is_stable(p) \/ ModesOf(p) # {}) =>
      MinMassKinematicContract(p, MinMassKinematicOf(p))

\* a load has succeeded, with a table for one unstable species and none for
\* another, whose min_mass_kinematic() is its pole mass
PoleMassOfUnstable ==
  /\ Loaded
  /\ \E p \in AllPdg, q \in AllPdg :
       /\ ~is_stable(p) /\ ModesOf(p) = {} /\ MinMassKinematicOf(p).value = mass(p)
       /\ ~is_stable(q) /\ ModesOf(q) # {} /\ MinMassKinematicOf(q).value < mass(q)

(***************************************************************************)
(* One table under arbitrary add_mode calls.                               *)
(***************************************************************************)
\* the ratios of the calls
CallRatios == {Rat(1, 2), One}

\* the construction pass has published an empty registry, and one table is
\* being filled
InitAddMode ==
  /\ status = "loading"
  /\ error = NoError
  /\ ndebug = TRUE
  /\ all_decay_types = <<>>
  /\ all_decay_modes = EmptyTables
  /\ isotype_mother = Null
  /\ decay_modes_to_add = << <<>> >>
  /\ total_large_renormalized = 0
  /\ linenumber = 1
  /\ physical = 0
  /\ line = 0
  /\ nrecords = 0
  /\ ncomments = 0
  /\ min_mass_kinematic_ = [p \in AllPdg |-> -1]
  /\ finalized = {}
  /\ last = NoRecord
  /\ RuntimeIdle

\* one call of DecayModes::add_mode on the table; type is 0 for the call that
\* ends with the InvalidDecay of get_decay_type
AddMode(mother, ratio, L, particle_types) ==
  /\ Len(requests) < MaxCalls
  /\ \E r \in {add_mode(decay_modes_to_add[1], all_decay_types, mother, ratio, L,
                        particle_types)} :
       /\ all_decay_types' = r.types
       /\ decay_modes_to_add' = <<r.table>>
       /\ requests' =
            Append(requests,
                   [mother |-> mother, particles |-> particle_types, L |-> L,
                    ratio |-> ratio,
                    type |-> get_decay_type(all_decay_types, mother, particle_types,
                                            L).type,
                    before |-> decay_modes_to_add[1]])
  /\ UNCHANGED <<status, error, ndebug, all_decay_modes, isotype_mother,
                 total_large_renormalized, linenumber, physical, line, nrecords,
                 ncomments, min_mass_kinematic_, finalized, last,
                 min_mass_spectral_, norm_factor_, max_factor1_, max_factor2_,
                 returned, history, pc, frame, map_possible_resonances_of>>

NextAddMode ==
  \E mother \in CallMothers, ratio \in CallRatios, L \in CallAngularMomenta,
     particle_types \in CallDaughters : AddMode(mother, ratio, L, particle_types)

SpecAddMode == InitAddMode /\ [][NextAddMode]_vars

\* the ratios of the first n calls that resolved to a type, added up
RECURSIVE RatiosOf(_, _)
RatiosOf(type, n) ==
  IF n = 0 THEN Zero
  ELSE IF requests[n].type = type THEN RAdd(RatiosOf(type, n - 1), requests[n].ratio)
  ELSE RatiosOf(type, n - 1)

\* the table the n-th call has left
TableAfter(n) ==
  IF n = Len(requests) THEN decay_modes_to_add[1] ELSE requests[n + 1].before

\* what the n-th call has done to the table
AddModeContract(n) ==
  LET call == requests[n]
      at == BranchOf(call.before, call.type)
  IN  IF call.type = 0 THEN TableAfter(n) = call.before
      ELSE IF at # 0
      THEN /\ Len(TableAfter(n)) = Len(call.before)
           /\ TableAfter(n) = [call.before EXCEPT ![at].weight = RAdd(@, call.ratio)]
      ELSE TableAfter(n) = Append(call.before, [type |-> call.type, weight |-> call.ratio])

\* C24: under any sequence of DecayModes::add_mode calls on one table the
\* table never holds two branches of the same decay type: a call that
\* resolves to a type already present adds its ratio to the weight of that
\* branch and leaves the number of branches as it is, any other call appends
\* exactly one branch; the weight of a branch is the sum of the ratios of the
\* calls that resolved to its type.
C24_OneBranchPerType ==
  /\ \A i \in 1..Len(decay_modes_to_add[1]), j \in 1..Len(decay_modes_to_add[1]) :
       decay_modes_to_add[1][i].type = decay_modes_to_add[1][j].type => i = j
  /\ \A n \in 1..Len(requests) : AddModeContract(n)
  /\ \A i \in 1..Len(decay_modes_to_add[1]) :
       decay_modes_to_add[1][i].weight
         = RatiosOf(decay_modes_to_add[1][i].type, Len(requests))

\* a table of two branches after three calls, two of which resolved to the
\* same type through daughter lists in different orders
C24_Witness ==
  /\ Len(requests) = 3
  /\ Len(decay_modes_to_add[1]) = 2
  /\ \E m \in 1..3, n \in 1..3 :
       /\ m < n
       /\ requests[m].type = requests[n].type
       /\ requests[m].particles # requests[n].particles
       /\ decay_modes_to_add[1][BranchOf(decay_modes_to_add[1], requests[n].type)].weight
            = RAdd(requests[m].ratio, requests[n].ratio)

(***************************************************************************)
(* min_angular_momentum on arbitrary doubled spins.                        *)
(***************************************************************************)
\* the largest doubled spin of the calls
MaxSpin == 4

\* the doubled spins of a call have been chosen
InitSpins ==
  /\ status = "idle"
  /\ error = NoError
  /\ ndebug = TRUE
  /\ all_decay_types = <<>>
  /\ all_decay_modes = EmptyTables
  /\ isotype_mother = Null
  /\ decay_modes_to_add = <<>>
  /\ total_large_renormalized = 0
  /\ linenumber = 0
  /\ physical = 0
  /\ line = 0
  /\ nrecords = 0
  /\ ncomments = 0
  /\ min_mass_kinematic_ = [p \in AllPdg |-> -1]
  /\ finalized = {}
  /\ last = NoRecord
  /\ requests = <<>>
  /\ min_mass_spectral_ = [p \in AllPdg |-> -1]
  /\ norm_factor_ = [p \in AllPdg |-> Rat(-1, 1)]
  /\ max_factor1_ = [p \in AllPdg |-> One]
  /\ max_factor2_ = [p \in AllPdg |-> One]
  /\ returned = NoCall
  /\ history = <<>>
  /\ pc = <<>>
  /\ frame \in [s0 : 0..MaxSpin, s1 : 0..MaxSpin, s2 : 0..MaxSpin, s3 : 0..MaxSpin]
  /\ map_possible_resonances_of = {}

\* what a call of min_angular_momentum leaves alone
SpinsKeep ==
  UNCHANGED <<status, error, ndebug, all_decay_types, all_decay_modes,
              isotype_mother, decay_modes_to_add, total_large_renormalized,
              linenumber, physical, line, nrecords, ncomments,
              min_mass_kinematic_, finalized, last, requests, min_mass_spectral_,
              norm_factor_, max_factor1_, max_factor2_, history, pc, frame,
              map_possible_resonances_of>>

\* min_angular_momentum(s0, s1, s2); the value -1 stands for the exception
MinAngularMomentum2 ==
  /\ returned = NoCall
  /\ returned' = [op |-> "min_angular_momentum", n |-> 2,
                  value |-> min_angular_momentum(frame.s0, frame.s1, frame.s2)]
  /\ SpinsKeep

\* min_angular_momentum(s0, s1, s2, s3)
MinAngularMomentum3 ==
  /\ returned = NoCall
  /\ returned' = [op |-> "min_angular_momentum", n |-> 3,
                  value |-> min_angular_momentum3(frame.s0, frame.s1, frame.s2,
                                                  frame.s3)]
  /\ SpinsKeep

NextSpins == MinAngularMomentum2 \/ MinAngularMomentum3

SpecSpins == InitSpins /\ [][NextSpins]_vars

\* the smallest element of a set of numbers
Least(S) == CHOOSE x \in S : \A y \in S : x <= y

Signs == {-1, 1}

\* the minimum of |s0 +- s1 +- s2 +- s3| over the eight combinations of signs
EightSigns(s0, s1, s2, s3) ==
  Least({Abs(s0 + a * s1 + b * s2 + c * s3) : a \in Signs, b \in Signs, c \in Signs})

\* min(|s0 - s1 - s2|, |s0 - s1 + s2|, |s0 + s1 - s2|)
ThreeSigns(s0, s1, s2) ==
  Least({Abs(s0 - s1 - s2), Abs(s0 - s1 + s2), Abs(s0 + s1 - s2)})

\* C25: for non-negative doubled spins the three-body min_angular_momentum
\* is half the minimum of |s0 +- s1 +- s2 +- s3| over all eight combinations
\* of signs, the two-body one is
\* min(|s0 - s1 - s2|, |s0 - s1 + s2|, |s0 + s1 - s2|) / 2, and each throws
\* exactly when the sum of the doubled spins is odd.
C25_MinAngularMomentum ==
  returned.op = "min_angular_momentum" =>
    IF returned.n = 2
    THEN IF (frame.s0 + frame.s1 + frame.s2) % 2 # 0 THEN returned.value = -1
         ELSE /\ returned.value >= 0
              /\ 2 * returned.value = ThreeSigns(frame.s0, frame.s1, frame.s2)
    ELSE IF (frame.s0 + frame.s1 + frame.s2 + frame.s3) % 2 # 0
         THEN returned.value = -1
         ELSE /\ returned.value >= 0
              /\ 2 * returned.value = EightSigns(frame.s0, frame.s1, frame.s2, frame.s3)

\* a three-body call whose minimum is at the one combination of signs that
\* is computed last
C25_Witness ==
  /\ returned.op = "min_angular_momentum" /\ returned.n = 3
  /\ returned.value >= 0
  /\ 2 * returned.value = Abs(frame.s0 - frame.s1 - frame.s2 - frame.s3)
  /\ \A a \in Signs, b \in Signs, c \in Signs :
       <<a, b, c>> # <<-1, -1, -1>> =>
         2 * returned.value
           < Abs(frame.s0 + a * frame.s1 + b * frame.s2 + c * frame.s3)

(***************************************************************************)
(* A second call of load_decaymodes in the same process.  The inputs of    *)
(* the two calls are fixed at the start (frame), pc holds how the earlier  *)
(* calls ended.                                                            *)
(***************************************************************************)
\* number of calls of load_decaymodes in one process
MaxLoads == 2

\* the records of the inputs of the calls: rho with a mode above its pole
\* mass, phi with a second header, and rho with one and with two modes
LoadInputs ==
  { << Header(Nm("rho", "")),
       Data(One, 1, <<Nm("pi", ""), Nm("rho", ""), Nm("pi", "")>>) >>,
    << Header(Nm("phi", "")),
       Data(One, 1, <<Nm("K", "+"), [Nm("K", "-") EXCEPT !.bar = TRUE]>>),
       Header(Nm("phi", "")) >>,
    << Header(Nm("rho", "")), Data(One, 1, <<Nm("pi", ""), Nm("pi", "")>>) >>,
    << Header(Nm("rho", "")), Data(One, 1, <<Nm("pi", ""), Nm("pi", "")>>),
       Data(One, 1, <<Nm("pi", ""), Nm("gamma", "")>>) >>,
    << Header(Nm("rho", "")), Data(One, 1, <<Nm("pi", ""), Nm("pi", "")>>),
       Data(One, 1, <<Nm("pi", ""), Nm("rho", ""), Nm("pi", "")>>) >> }

\* the inputs without a header that names no multiplet or that comes twice
LoadInputsOnce ==
  {records \in LoadInputs :
     \A i, j \in 1..Len(records) :
       (records[i].kind = "header" /\ records[j].kind = "header" /\ i # j)
         => records[i].name # records[j].name}

InitLoads ==
  /\ status = "idle"
  /\ error = NoError
  /\ ndebug \in BOOLEAN
  /\ all_decay_types = <<>>
  /\ all_decay_modes = EmptyTables
  /\ isotype_mother = Null
  /\ decay_modes_to_add = <<>>
  /\ total_large_renormalized = 0
  /\ linenumber = 0
  /\ physical = 0
  /\ line = 0
  /\ nrecords = 0
  /\ ncomments = 0
  /\ min_mass_kinematic_ = [p \in AllPdg |-> -1]
  /\ finalized = {}
  /\ last = NoRecord
  /\ requests = <<>>
  /\ min_mass_spectral_ = [p \in AllPdg |-> -1]
  /\ norm_factor_ = [p \in AllPdg |-> Rat(-1, 1)]
  /\ max_factor1_ = [p \in AllPdg |-> One]
  /\ max_factor2_ = [p \in AllPdg |-> One]
  /\ returned = NoCall
  /\ history = <<>>
  /\ pc = <<>>
  /\ frame \in {input \in [1..MaxLoads -> LoadInputs] :
                   \A i \in 2..MaxLoads : input[i] \in LoadInputsOnce}
  /\ map_possible_resonances_of = {}

\* the input of the current call
InputOfCall == frame[Len(pc) + 1]

\* a later call that keeps the static vectors as the earlier call left them
LoadAgainKeeping ==
  /\ status \in {"ok", "failed"}
  /\ error.type # "abort"
  /\ Len(pc) + 1 < MaxLoads
  /\ pc' = Append(pc, status)
  /\ status' = "loading"
  /\ error' = NoError
  /\ isotype_mother' = Null
  /\ decay_modes_to_add' = <<>>
  /\ total_large_renormalized' = 0
  /\ linenumber' = 1
  /\ physical' = 0
  /\ line' = 0
  /\ nrecords' = 0
  /\ ncomments' = 0
  /\ finalized' = {}
  /\ last' = NoRecord
  /\ UNCHANGED <<ndebug, all_decay_types, all_decay_modes, min_mass_kinematic_, requests,
                 min_mass_spectral_, norm_factor_, max_factor1_, max_factor2_, returned,
                 history, frame, map_possible_resonances_of>>

\* the entry of a later call of load_decaymodes, after the earlier call has
\* returned or thrown: the static vectors are cleared, the locals and the
\* line parser are new, the members of the ParticleType objects stay
LoadAgain ==
  /\ status \in {"ok", "failed"}
  /\ error.type # "abort"
  /\ Len(pc) + 1 < MaxLoads
  /\ pc' = Append(pc, status)
  /\ status' = "loading"
  /\ error' = NoError
  /\ all_decay_types' = <<>>
  /\ all_decay_modes' = EmptyTables
  /\ isotype_mother' = Null
  /\ decay_modes_to_add' = <<>>
  /\ total_large_renormalized' = 0
  /\ linenumber' = 1
  /\ physical' = 0
  /\ line' = 0
  /\ nrecords' = 0
  /\ ncomments' = 0
  /\ finalized' = {}
  /\ last' = NoRecord
  /\ UNCHANGED <<ndebug, min_mass_kinematic_, requests, min_mass_spectral_, norm_factor_,
                 max_factor1_, max_factor2_, returned, history, frame,
                 map_possible_resonances_of>>

\* the next record of the input of the call
NextRecord ==
  /\ nrecords < Len(InputOfCall)
  /\ \E r \in {InputOfCall[nrecords + 1]} :
       IF r.kind = "header" THEN ReadHeader(r.name)
       ELSE ReadDataLine(r.ratio, r.L, r.tokens, 0)

\* the input of the call is read
LastRecord == nrecords = Len(InputOfCall) /\ EndOfInput

NextLoads ==
  \/ LoadBegin
  \/ LoadAgain
  \/ NextRecord
  \/ LastRecord

SpecLoads == InitLoads /\ [][NextLoads]_vars

\* the second call has ended, the first one had failed
RetryEnded == Len(pc) = 1 /\ pc[1] = "failed" /\ status \in {"ok", "failed"}

\* C26: a call of load_decaymodes made after a failed call leaves the tables
\* and the registry a first call on the same input leaves (and fails to read
\* the input with the same exception, if the first call does)
C26_RetryFromScratch ==
  RetryEnded =>
    \E fresh \in {Loading(frame[2])} :
      IF fresh.err # NoError THEN status = "failed" /\ error = fresh.err
      ELSE all_decay_modes = fresh.modes /\ all_decay_types = fresh.types

\* the first call failed with tables installed, the second call has installed
\* other tables
C26_Witness ==
  /\ RetryEnded
  /\ frame[1] # frame[2]
  /\ Loading(frame[2]).err = NoError
  /\ \E p \in AllPdg : all_decay_modes[p] # <<>>
  /\ \E p \in AllPdg : all_decay_modes[p] = <<>> /\ Len(Loading(frame[1]).modes[p]) > 0

\* min_mass_kinematic() of p computed from the installed tables alone
MinMassKinematicOfInstalled(p) ==
  min_mass_kinematic(ParticleTypes, [q \in AllPdg |-> -1], all_decay_modes,
                     all_decay_types, ndebug, p).value

\* C29: after load_decaymodes has succeeded, whatever calls went before, a
\* cached min_mass_kinematic_ that is populated is the value computed from
\* the installed tables
C29_CachesOfInstalledTables ==
  Loaded => \A p \in AllPdg :
    min_mass_kinematic_[p] >= 0 => min_mass_kinematic_[p] = MinMassKinematicOfInstalled(p)

\* the same after the first call of the process
CachesOfFirstCall ==
  (Loaded /\ pc = <<>>) => \A p \in AllPdg :
    min_mass_kinematic_[p] >= 0 => min_mass_kinematic_[p] = MinMassKinematicOfInstalled(p)

\* a first call has succeeded with the cache of an unstable species populated
FirstCallPopulates ==
  /\ Loaded /\ pc = <<>>
  /\ \E p \in AllPdg : ~is_stable(p) /\ min_mass_kinematic_[p] >= 0

(***************************************************************************)
(* A data line before the first header.                                    *)
(***************************************************************************)
\* the record read last is a data line read while no mother multiplet is
\* current
DataLineWithoutMother == last.kind = "data" /\ isotype_mother = Null

\* C28: a data line read while no mother multiplet is current makes
\* load_decaymodes fail with one of its exceptions and adds no mode
C28_DataLineNeedsMother ==
  DataLineWithoutMother => (Failed /\ last.added = 0 /\ decay_modes_to_add = <<>>)

\* such a line is rejected when its angular momentum is negative or a
\* daughter is unknown, which is tested before the mother is used
DataLineWithoutMotherRejected == DataLineWithoutMother /\ Failed

\* such a line is read and the call goes on
DataLineWithoutMotherAccepted == DataLineWithoutMother /\ status = "loading"

\* the read through the unset pointer ends the process
DataLineWithoutMotherCrashes == DataLineWithoutMother /\ error = Crash

(***************************************************************************)
(* The two loops of min_mass_spectral, counted.                            *)
(***************************************************************************)
\* the number of passes of the while loop of the bisection
RECURSIVE BisectionPasses(_, _, _, _, _, _, _)
BisectionPasses(pt, c, modes, types, p, left_bound_bis, right_bound_bis) ==
  IF ~(right_bound_bis - left_bound_bis > precision) THEN 0
  ELSE CHOOSE n \in
         {IF RLess(really_small, sf.value)
          THEN 1 + BisectionPasses(pt, sf.c, modes, types, p, left_bound_bis,
                                   (left_bound_bis + right_bound_bis) \div 2)
          ELSE 1 + BisectionPasses(pt, sf.c, modes, types, p,
                                   (left_bound_bis + right_bound_bis) \div 2,
                                   right_bound_bis) :
            sf \in {spectral_function(pt, c, modes, types, p,
                                      (left_bound_bis + right_bound_bis) \div 2)}} :
         TRUE

\* the loops of min_mass_spectral() of p in the current state: whether the
\* search is entered, the index i the for loop ends with (-1 if it has not
\* ended after MaxBracket steps) and the passes of the bisection
SearchLoops(p) ==
  CHOOSE loops \in
    {CHOOSE entered \in
       {IF RLess(sf.value, really_small)
        THEN CHOOSE found \in
               {IF r.value < 0 THEN [searched |-> TRUE, i |-> -1, passes |-> 0]
                ELSE [searched |-> TRUE,
                      i |-> (r.value - InUnits(k.value)) \div m_step,
                      passes |-> BisectionPasses(ParticleTypes, r.c, all_decay_modes,
                                                 all_decay_types, p, r.value - m_step,
                                                 r.value)] :
                  r \in {RightBound(ParticleTypes, sf.c, all_decay_modes,
                                    all_decay_types, p, InUnits(k.value), 0)}} : TRUE
        ELSE [searched |-> FALSE, i |-> 0, passes |-> 0] :
          sf \in {spectral_function(ParticleTypes,
                                    [Caches EXCEPT !.kin = k.cache,
                                                   !.spec[p] = InUnits(k.value)],
                                    all_decay_modes, all_decay_types, p,
                                    InUnits(k.value))}} : TRUE :
       k \in {min_mass_kinematic(ParticleTypes, min_mass_kinematic_, all_decay_modes,
                                 all_decay_types, TRUE, p)}} : TRUE

CandidateKinds == {"lower", "inner", "upper"}

CandidateOf(in, kind) ==
  CASE kind = "lower" -> in.min_mass
    [] kind = "inner" -> in.min_mass + 5 * MeV
    [] kind = "upper" -> in.max_mass

\* the kinds of candidates that lie within the bounds of the call
KindsOf(in) ==
  {kind \in CandidateKinds : CandidateOf(in, kind) \in RaceCandidates(in.min_mass, in.max_mass)}

\* the calls of the process so far have returned
NoCallRunning == \A w \in Workers : pc[w] = "done"

\* sample_resonance_mass of p is called and computes max_mass, min_mass,
\* blw_max and sf_ratio_max
SampleCalled(p, mass_stable, cms_energy, L) ==
  /\ NoCallRunning
  /\ Len(pc) < NWorkers
  /\ \E b \in {resonance_mass_bounds(ParticleTypes, Caches, all_decay_modes,
                                     all_decay_types, p, mass_stable, cms_energy, L)} :
       /\ b.in.min_mass >= 0
       /\ b.in.min_mass <= b.in.max_mass
       /\ min_mass_kinematic_' = b.c.kin
       /\ min_mass_spectral_' = b.c.spec
       /\ norm_factor_' = b.c.norm
       /\ pc' = Append(pc, "outer")
       /\ \E vals \in {[kind \in CandidateKinds |->
                          candidate_value(ParticleTypes, b.c, all_decay_modes,
                                          all_decay_types, p, b.in,
                                          CandidateOf(b.in, kind))]} :
            frame' = Append(frame, [op |-> "sample_resonance_mass", p |-> p, in |-> b.in,
                                    max |-> Zero, mass |-> 0, val |-> Zero,
                                    loaded |-> Zero, stored |-> Zero, draws |-> 0,
                                    vals |-> vals])
  /\ UNCHANGED max_factor1_
  /\ EnvelopeKeeps

\* one pass of the inner loop with the candidate of the given kind, the
\* test that ends the loop and the test of val against max
Draw(w, kind, u) ==
  /\ w \in Workers
  /\ pc[w] = "inner"
  /\ kind \in KindsOf(frame[w].in)
  /\ frame' = [frame EXCEPT ![w].mass = CandidateOf(frame[w].in, kind),
                            ![w].val = frame[w].vals[kind]]
  /\ Goto(w, IF RLess(frame[w].vals[kind], uniform(frame[w].max, u)) THEN "inner"
             ELSE IF RLess(frame[w].max, frame[w].vals[kind]) THEN "load"
             ELSE "done")
  /\ UNCHANGED <<min_mass_kinematic_, min_mass_spectral_, norm_factor_, max_factor1_>>
  /\ EnvelopeKeeps

\* a step of a call that draws nothing
Proceed(w) == w \in Workers /\ (OuterLoop(w) \/ LoadFactor(w) \/ StoreFactor(w))

NextDraws ==
  \/ \E p \in RuntimeSpecies, cms_energy \in RaceEnergies :
       SampleCalled(p, PionMass, cms_energy, 0)
  \/ \E w \in 1..NWorkers : Proceed(w)
  \/ \E w \in 1..NWorkers, kind \in CandidateKinds, u \in Fractions : Draw(w, kind, u)

\* a draw that ends the inner loop of a call
EndingDraw ==
  \E w \in 1..NWorkers, kind \in CandidateKinds, u \in Fractions :
    Draw(w, kind, u) /\ pc'[w] # "inner"

\* some call takes such a step
Proceeding == \E w \in 1..NWorkers : Proceed(w)

\* the call goes on, and the draws that end the inner loop are not left out
\* for ever
FairDraws == WF_vars(Proceeding) /\ SF_vars(EndingDraw)

SpecDraws == InitEnvelope /\ [][NextDraws]_vars /\ FairDraws

\* call w is running
Running(w) == w \in Workers /\ pc[w] # "done"

\* a candidate of call w has a positive val
PositiveCandidate(w) == \E kind \in KindsOf(frame[w].in) : RLess(Zero, frame[w].vals[kind])

\* C30: under fair draws a call of sample_resonance_mass with a candidate of
\* positive val returns
C30_SampleReturns ==
  \A w \in 1..NWorkers :
    (Running(w) /\ PositiveCandidate(w)) ~> (w \in Workers /\ pc[w] = "done")

\* a call with a candidate of positive val has returned after a val above
\* max made it enlarge the envelope and start the outer loop again
C30_Witness ==
  \E w \in Workers :
    /\ pc[w] = "done"
    /\ PositiveCandidate(w)
    /\ RLess(Zero, frame[w].stored)
    /\ ~RLess(frame[w].max, frame[w].val)

\* the val kept for a candidate is the val the inner loop computes for it
ValsOfCandidates ==
  \A w \in Workers : \A kind \in KindsOf(frame[w].in) :
    frame[w].vals[kind]
      = candidate_value(ParticleTypes, Caches, all_decay_modes, all_decay_types,
                        frame[w].p, frame[w].in, CandidateOf(frame[w].in, kind))

==============================================================================
